---- MODULE Spec2Model ----
(***************************************************************************)
(* Session / booking state machine of the fitstream backend: the Session   *)
(* and User collections and the request handlers of sessionController.js   *)
(* (session CRUD, booking, status) and of the stream controller (start,    *)
(* end, join).  One action is one HTTP request served from start to end.   *)
(***************************************************************************)
EXTENDS Integers, Sequences, FiniteSets, TLC

VARIABLES sessions, users, packages, transactions, inflight, now, res

vars == <<sessions, users, packages, transactions, inflight, now, res>>

(***************************************************************************)
(* Bounds of the model.                                                    *)
(***************************************************************************)
MaxTime == 2
MaxTokens == 2
MaxRoster == 3
MaxStreamTime == 5

(***************************************************************************)
(* Identities.  Three registered accounts, one per role of the User        *)
(* schema, and the ids the store hands out to new sessions.                *)
(***************************************************************************)
UserIds == {"u1", "t1", "a1"}

SessionIds == {"s1", "s2"}

PackageIds == {"p1", "p2"}

\* The requests the server can have in flight at the same time.
RequestIds == {"r1", "r2"}

roleOf == [u1 |-> "user", t1 |-> "trainer", a1 |-> "admin"]

\* An unset Date field (undefined); the clock starts at 1.
NoDate == 0

StatusEnum == {"scheduled", "live", "completed", "cancelled"}

(***************************************************************************)
(* Documents.                                                              *)
(***************************************************************************)
NoStreamingDetails == [channelName |-> "", startedAt |-> NoDate, endedAt |-> NoDate]

\* A slot of the Session collection that holds no document: "never" before
\* the id is handed out, "removed" after session.remove().
\* duration is in minutes; averageRating, a number with one decimal, is held
\* in tenths (47 for 4.7).
EmptySlot(st) ==
    [stored |-> st, trainer |-> "", scheduledAt |-> NoDate, duration |-> 0,
     tokenCost |-> 0, maxParticipants |-> 0, participants |-> <<>>, status |-> "",
     streamingDetails |-> NoStreamingDetails, ratings |-> <<>>, averageRating |-> 0]

NewParticipant(u, joined) ==
    [user |-> u, joinedAt |-> joined, leaveAt |-> NoDate, duration |-> 0]

\* trainerProfile.rating is held in tenths, like averageRating.
NewUser(u) ==
    [role |-> roleOf[u], tokens |-> 0, bookedSessions |-> <<>>, completedSessions |-> <<>>,
     trainerProfile |-> [rating |-> 0, totalRatings |-> 0]]

\* A slot of the Package collection that holds no document.
NoPackage ==
    [stored |-> FALSE, tokenAmount |-> 0, price |-> 0, isPromotion |-> FALSE,
     validUntil |-> NoDate, active |-> FALSE]

\* A request slot with no request in it.  A request in flight holds the
\* number its body carries, the documents it has read and, once it is done,
\* its response.
Idle ==
    [op |-> "", pc |-> "idle", caller |-> "", id |-> "", body |-> 0,
     user |-> NewUser("u1"), session |-> EmptySlot("never"), package |-> NoPackage,
     code |-> 0, msg |-> ""]

\* The response of the request being answered; NoRes while the server waits
\* for a request.
NoRes ==
    [op |-> "", user |-> "", session |-> "", code |-> 0, msg |-> "", cred |-> "", data |-> <<>>]

Reply(code, msg) == [code |-> code, msg |-> msg]

Res(op, u, sid, r) ==
    [op |-> op, user |-> u, session |-> sid, code |-> r.code, msg |-> r.msg, cred |-> "",
     data |-> <<>>]

Init ==
    /\ sessions = [s \in SessionIds |-> EmptySlot("never")]
    /\ users = [u \in UserIds |-> NewUser(u)]
    /\ packages = [p \in PackageIds |-> NoPackage]
    /\ transactions = <<>>
    /\ inflight = [r \in RequestIds |-> Idle]
    /\ now = 1
    /\ res = NoRes

\* Time passes between requests.
Tick ==
    /\ res = NoRes
    /\ now < MaxTime
    /\ now' = now + 1
    /\ UNCHANGED <<sessions, users, res>>
    /\ UNCHANGED <<packages, transactions, inflight>>

\* The response has gone out; the next request can be served.
NextRequest ==
    /\ res # NoRes
    /\ res' = NoRes
    /\ UNCHANGED <<sessions, users, now>>
    /\ UNCHANGED <<packages, transactions, inflight>>

(***************************************************************************)
(* Route middleware.                                                       *)
(***************************************************************************)
isTrainer(u) == users[u].role = "trainer" \/ users[u].role = "admin"

isOwnerOrAdmin(u, id) == users[u].role = "admin" \/ u = id

TrainerAccessRequired == Reply(403, "Trainer access required")

AccessDenied == Reply(403, "Access denied")

\* The ids the store has not handed out yet, and the one it hands out next.
FreshIds == {s \in SessionIds : sessions[s].stored = "never"}

NextSessionId == IF "s1" \in FreshIds THEN "s1" ELSE "s2"

TokenRange == -1..MaxTokens

(***************************************************************************)
(* Session CRUD.                                                           *)
(***************************************************************************)
NewSession(caller, body) ==
    [stored |-> "yes", trainer |-> caller, scheduledAt |-> body.scheduledAt,
     duration |-> body.duration,
     tokenCost |-> IF body.tokenCost # 0 THEN body.tokenCost ELSE 1,
     maxParticipants |-> body.maxParticipants,
     participants |-> <<>>, status |-> "scheduled",
     streamingDetails |-> NoStreamingDetails, ratings |-> <<>>, averageRating |-> 0]

createSession(caller, body) ==
    /\ res = NoRes
    /\ FreshIds # {}
    /\ IF ~isTrainer(caller)
       THEN /\ res' = Res("createSession", caller, "", TrainerAccessRequired)
            /\ UNCHANGED sessions
       ELSE /\ sessions' = [sessions EXCEPT ![NextSessionId] = NewSession(caller, body)]
            /\ res' = Res("createSession", caller, NextSessionId, Reply(201, ""))
    /\ UNCHANGED <<users, now>>
    /\ UNCHANGED <<packages, transactions, inflight>>

\* The assignments of updateSession for the fields the body carries.
updateFields(session, body) ==
    [session EXCEPT
       !.scheduledAt = IF body.scheduledAt # NoDate THEN body.scheduledAt ELSE @,
       !.duration = IF body.duration # 0 THEN body.duration ELSE @,
       !.tokenCost = IF body.tokenCost # 0 THEN body.tokenCost ELSE @,
       !.maxParticipants = IF body.maxParticipants # <<>> THEN body.maxParticipants[1] ELSE @,
       !.status = IF body.status # "" /\ body.status # "live" /\ body.status # "completed"
                  THEN body.status ELSE @]

updateSessionResponse(caller, session) ==
    IF session.stored # "yes"
    THEN Reply(404, "Session not found")
    ELSE IF session.trainer # caller /\ users[caller].role # "admin"
    THEN Reply(403, "Not authorized to update this session")
    ELSE IF session.status = "live" \/ session.status = "completed"
    THEN Reply(400, "Cannot update a " \o session.status \o " session")
    ELSE Reply(200, "")

updateSession(caller, sid, body) ==
    LET session == sessions[sid]
        r == updateSessionResponse(caller, session)
        updated == updateFields(session, body)
    IN  /\ res = NoRes
        /\ IF ~isTrainer(caller)
           THEN /\ res' = Res("updateSession", caller, sid, TrainerAccessRequired)
                /\ UNCHANGED sessions
           ELSE IF r.code # 200
           THEN /\ res' = Res("updateSession", caller, sid, r)
                /\ UNCHANGED sessions
           ELSE IF updated.status \notin StatusEnum
           THEN \* session.save() fails the schema's enum; the error handler answers
                /\ res' = Res("updateSession", caller, sid, Reply(500, "Validation failed"))
                /\ UNCHANGED sessions
           ELSE /\ sessions' = [sessions EXCEPT ![sid] = updated]
                /\ res' = Res("updateSession", caller, sid, r)
        /\ UNCHANGED <<users, now>>
        /\ UNCHANGED <<packages, transactions, inflight>>

\* deleteSession without its status check.
deleteSessionResponse_anyStatus(caller, session) ==
    IF session.stored # "yes"
    THEN Reply(404, "Session not found")
    ELSE IF session.trainer # caller /\ users[caller].role # "admin"
    THEN Reply(403, "Not authorized to delete this session")
    ELSE Reply(200, "Session deleted successfully")

deleteSessionResponse(caller, session) ==
    IF session.stored # "yes"
    THEN Reply(404, "Session not found")
    ELSE IF session.trainer # caller /\ users[caller].role # "admin"
    THEN Reply(403, "Not authorized to delete this session")
    ELSE IF session.status = "live" \/ session.status = "completed"
    THEN Reply(400, "Cannot delete a " \o session.status \o " session")
    ELSE Reply(200, "Session deleted successfully")

deleteSession(caller, sid) ==
    LET session == sessions[sid]
        r == deleteSessionResponse(caller, session)
    IN  /\ res = NoRes
        /\ IF ~isTrainer(caller)
           THEN /\ res' = Res("deleteSession", caller, sid, TrainerAccessRequired)
                /\ UNCHANGED sessions
           ELSE /\ res' = Res("deleteSession", caller, sid, r)
                /\ sessions' = IF r.code = 200
                               THEN [sessions EXCEPT ![sid] = EmptySlot("removed")]
                               ELSE sessions
        /\ UNCHANGED <<users, now>>
        /\ UNCHANGED <<packages, transactions, inflight>>

(***************************************************************************)
(* Booking and the cancel-triggered refund.                                *)
(***************************************************************************)
alreadyBooked(user, sid) == \E i \in 1..Len(user.bookedSessions) : user.bookedSessions[i] = sid

\* bookSession without the "already booked" check.
bookSessionResponse_rebook(user, session, sid, t) ==
    IF session.stored # "yes"
    THEN Reply(404, "Session not found")
    ELSE IF session.scheduledAt < t
    THEN Reply(400, "Cannot book past sessions")
    ELSE IF session.status = "cancelled"
    THEN Reply(400, "This session has been cancelled")
    ELSE IF session.maxParticipants > 0 /\ Len(session.participants) >= session.maxParticipants
    THEN Reply(400, "Session is full")
    ELSE IF user.tokens < session.tokenCost
    THEN Reply(400, "Insufficient tokens")
    ELSE Reply(200, "Session booked successfully")

\* bookSession with the capacity check off by one (> for >=).
bookSessionResponse_overfull(user, session, sid, t) ==
    IF session.stored # "yes"
    THEN Reply(404, "Session not found")
    ELSE IF session.scheduledAt < t
    THEN Reply(400, "Cannot book past sessions")
    ELSE IF session.status = "cancelled"
    THEN Reply(400, "This session has been cancelled")
    ELSE IF alreadyBooked(user, sid)
    THEN Reply(400, "Session already booked")
    ELSE IF session.maxParticipants > 0 /\ Len(session.participants) > session.maxParticipants
    THEN Reply(400, "Session is full")
    ELSE IF user.tokens < session.tokenCost
    THEN Reply(400, "Insufficient tokens")
    ELSE Reply(200, "Session booked successfully")

bookSessionResponse(user, session, sid, t) ==
    IF session.stored # "yes"
    THEN Reply(404, "Session not found")
    ELSE IF session.scheduledAt < t
    THEN Reply(400, "Cannot book past sessions")
    ELSE IF session.status = "cancelled"
    THEN Reply(400, "This session has been cancelled")
    ELSE IF alreadyBooked(user, sid)
    THEN Reply(400, "Session already booked")
    ELSE IF session.maxParticipants > 0 /\ Len(session.participants) >= session.maxParticipants
    THEN Reply(400, "Session is full")
    ELSE IF user.tokens < session.tokenCost
    THEN Reply(400, "Insufficient tokens")
    ELSE Reply(200, "Session booked successfully")

\* A booking that debits one token whatever the session costs.
bookedUser_flatFee(user, session, sid) ==
    [user EXCEPT !.tokens = @ - 1,
                 !.bookedSessions = Append(@, sid)]

\* "Process booking": the user document and the session document as saved.
bookedUser(user, session, sid) ==
    [user EXCEPT !.tokens = @ - session.tokenCost,
                 !.bookedSessions = Append(@, sid)]

bookedSession(session, u) ==
    [session EXCEPT !.participants = Append(@, NewParticipant(u, NoDate))]

bookSession(u, sid) ==
    LET session == sessions[sid]
        user == users[u]
        r == bookSessionResponse(user, session, sid, now)
    IN  /\ res = NoRes
        /\ res' = Res("bookSession", u, sid, r)
        /\ IF r.code = 200
           THEN /\ bookedUser(user, session, sid).tokens \in TokenRange
                /\ Len(session.participants) < MaxRoster
                /\ users' = [users EXCEPT ![u] = bookedUser(user, session, sid)]
                /\ sessions' = [sessions EXCEPT ![sid] = bookedSession(session, u)]
           ELSE UNCHANGED <<users, sessions>>
        /\ UNCHANGED now
        /\ UNCHANGED <<packages, transactions, inflight>>

\* updateSessionStatus with a check for completed sessions only.
updateSessionStatusResponse_liveAllowed(caller, session, status) ==
    IF status \notin {"scheduled", "cancelled"}
    THEN Reply(400, "Invalid status")
    ELSE IF session.stored # "yes"
    THEN Reply(404, "Session not found")
    ELSE IF session.trainer # caller /\ users[caller].role # "admin"
    THEN Reply(403, "Not authorized to update this session")
    ELSE IF session.status = "completed"
    THEN Reply(400, "Cannot change status of a " \o session.status \o " session")
    ELSE Reply(200, "")

updateSessionStatusResponse(caller, session, status) ==
    IF status \notin {"scheduled", "cancelled"}
    THEN Reply(400, "Invalid status")
    ELSE IF session.stored # "yes"
    THEN Reply(404, "Session not found")
    ELSE IF session.trainer # caller /\ users[caller].role # "admin"
    THEN Reply(403, "Not authorized to update this session")
    ELSE IF session.status = "live" \/ session.status = "completed"
    THEN Reply(400, "Cannot change status of a " \o session.status \o " session")
    ELSE Reply(200, "")

\* A refund that leaves the booking reference in place.
refundedUser_keepsBooking(user, session, sid) ==
    [user EXCEPT !.tokens = @ + session.tokenCost]

\* The refund of one user found by User.find({'bookedSessions.session': sid}).
refundedUser(user, session, sid) ==
    [user EXCEPT !.tokens = @ + session.tokenCost,
                 !.bookedSessions = SelectSeq(@, LAMBDA b : b # sid)]

refundAll(usrs, session, sid) ==
    [u \in UserIds |-> IF alreadyBooked(usrs[u], sid)
                       THEN refundedUser(usrs[u], session, sid)
                       ELSE usrs[u]]

updateSessionStatus(caller, sid, status) ==
    LET session == sessions[sid]
        r == updateSessionStatusResponse(caller, session, status)
    IN  /\ res = NoRes
        /\ IF ~isTrainer(caller)
           THEN /\ res' = Res("updateSessionStatus", caller, sid, TrainerAccessRequired)
                /\ UNCHANGED <<sessions, users>>
           ELSE IF r.code # 200
           THEN /\ res' = Res("updateSessionStatus", caller, sid, r)
                /\ UNCHANGED <<sessions, users>>
           ELSE /\ res' = Res("updateSessionStatus", caller, sid, r)
                /\ sessions' = [sessions EXCEPT ![sid].status = status]
                /\ IF status = "cancelled"
                   THEN /\ \A u \in UserIds : refundAll(users, session, sid)[u].tokens \in TokenRange
                        /\ users' = refundAll(users, session, sid)
                   ELSE UNCHANGED users
        /\ UNCHANGED now
        /\ UNCHANGED <<packages, transactions, inflight>>

(***************************************************************************)
(* Token ledger.                                                           *)
(***************************************************************************)
updateTokensResponse(user, tokens, operation) ==
    IF tokens = 0 \/ tokens < 0
    THEN Reply(400, "Invalid token amount")
    ELSE IF operation = "subtract" /\ user.tokens < tokens
    THEN Reply(400, "User does not have enough tokens")
    ELSE Reply(200, "Tokens updated successfully")

updatedTokens(user, tokens, operation) ==
    IF operation = "add" THEN user.tokens + tokens
    ELSE IF operation = "subtract" THEN user.tokens - tokens
    ELSE tokens

updateTokens(caller, id, tokens, operation) ==
    LET user == users[id]
        r == updateTokensResponse(user, tokens, operation)
    IN  /\ res = NoRes
        /\ IF ~isOwnerOrAdmin(caller, id)
           THEN /\ res' = Res("updateTokens", caller, "", AccessDenied)
                /\ UNCHANGED users
           ELSE /\ res' = Res("updateTokens", caller, "", r)
                /\ IF r.code = 200
                   THEN /\ updatedTokens(user, tokens, operation) \in TokenRange
                        /\ users' = [users EXCEPT ![id].tokens = updatedTokens(user, tokens, operation)]
                   ELSE UNCHANGED users
        /\ UNCHANGED <<sessions, now>>
        /\ UNCHANGED <<packages, transactions, inflight>>

(***************************************************************************)
(* Stream orchestration.                                                   *)
(***************************************************************************)
\* agoraService.createChannel / generateViewerToken: the channel of a session.
createChannel(sid) == "session_" \o sid

\* updateSessionStreamStatus that records no end time.
updateSessionStreamStatus_noEnd(session, status, channelName, t) ==
    IF status = "live"
    THEN [session EXCEPT !.status = status,
                         !.streamingDetails.startedAt = t,
                         !.streamingDetails.channelName = channelName]
    ELSE [session EXCEPT !.status = status]

\* agoraService.updateSessionStreamStatus: findByIdAndUpdate with $set.
updateSessionStreamStatus(session, status, channelName, t) ==
    IF status = "live"
    THEN [session EXCEPT !.status = status,
                         !.streamingDetails.startedAt = t,
                         !.streamingDetails.channelName = channelName]
    ELSE IF status = "completed"
    THEN [session EXCEPT !.status = status,
                         !.streamingDetails.endedAt = t]
    ELSE [session EXCEPT !.status = status]

\* startStream that lets any caller past the route's role check start.
startStreamResponse_anyTrainer(caller, session) ==
    IF session.stored # "yes"
    THEN Reply(404, "Session not found")
    ELSE IF session.status = "live"
    THEN Reply(400, "Session is already live")
    ELSE IF session.status = "cancelled" \/ session.status = "completed"
    THEN Reply(400, "Cannot start a " \o session.status \o " session")
    ELSE Reply(200, "Stream started successfully")

startStreamResponse(caller, session) ==
    IF session.stored # "yes"
    THEN Reply(404, "Session not found")
    ELSE IF session.trainer # caller
    THEN Reply(403, "Only the assigned trainer can start this stream")
    ELSE IF session.status = "live"
    THEN Reply(400, "Session is already live")
    ELSE IF session.status = "cancelled" \/ session.status = "completed"
    THEN Reply(400, "Cannot start a " \o session.status \o " session")
    ELSE Reply(200, "Stream started successfully")

startStream(caller, sid) ==
    LET session == sessions[sid]
        r == startStreamResponse(caller, session)
    IN  /\ res = NoRes
        /\ IF ~isTrainer(caller)
           THEN /\ res' = Res("startStream", caller, sid, TrainerAccessRequired)
                /\ UNCHANGED sessions
           ELSE IF r.code # 200
           THEN /\ res' = Res("startStream", caller, sid, r)
                /\ UNCHANGED sessions
           ELSE /\ res' = [Res("startStream", caller, sid, r) EXCEPT !.cred = "host"]
                /\ sessions' = [sessions EXCEPT ![sid] =
                                   updateSessionStreamStatus(session, "live", createChannel(sid), now)]
        /\ UNCHANGED <<users, now>>
        /\ UNCHANGED <<packages, transactions, inflight>>

endStreamResponse(caller, session) ==
    IF session.stored # "yes"
    THEN Reply(404, "Session not found")
    ELSE IF session.trainer # caller
    THEN Reply(403, "Only the assigned trainer can end this stream")
    ELSE IF session.status # "live"
    THEN Reply(400, "Session is not currently live")
    ELSE Reply(200, "Stream ended successfully")

endStream(caller, sid) ==
    LET session == sessions[sid]
        r == endStreamResponse(caller, session)
    IN  /\ res = NoRes
        /\ IF ~isTrainer(caller)
           THEN /\ res' = Res("endStream", caller, sid, TrainerAccessRequired)
                /\ UNCHANGED sessions
           ELSE /\ res' = Res("endStream", caller, sid, r)
                /\ sessions' = IF r.code = 200
                               THEN [sessions EXCEPT ![sid] =
                                        updateSessionStreamStatus(session, "completed", "", now)]
                               ELSE sessions
        /\ UNCHANGED <<users, now>>
        /\ UNCHANGED <<packages, transactions, inflight>>

\* Session.recordParticipantJoin
participantIndex(participants, u) ==
    IF \E i \in 1..Len(participants) : participants[i].user = u
    THEN CHOOSE i \in 1..Len(participants) :
            /\ participants[i].user = u
            /\ \A j \in 1..(i - 1) : participants[j].user # u
    ELSE 0

recordParticipantJoin(session, u, t) ==
    LET i == participantIndex(session.participants, u)
    IN  IF i > 0
        THEN [session EXCEPT !.participants[i].joinedAt = t,
                             !.participants[i].leaveAt = NoDate]
        ELSE [session EXCEPT !.participants = Append(@, NewParticipant(u, t))]

\* The joinStream the module exports: the second assignment to
\* exports.joinStream replaces the first one.
joinStreamResponse(caller, session) ==
    IF session.stored # "yes"
    THEN Reply(404, "Session not found")
    ELSE IF session.status # "live"
    THEN Reply(400, "Session is not currently live")
    ELSE Reply(200, "Joined stream successfully")

joinStream(caller, sid) ==
    LET session == sessions[sid]
        r == joinStreamResponse(caller, session)
        joined == recordParticipantJoin(session, caller, now)
    IN  /\ res = NoRes
        /\ IF r.code # 200
           THEN /\ res' = Res("joinStream", caller, sid, r)
                /\ UNCHANGED sessions
           ELSE /\ Len(joined.participants) <= MaxRoster
                /\ sessions' = [sessions EXCEPT ![sid] = joined]
                /\ res' = [Res("joinStream", caller, sid, r) EXCEPT
                              !.cred = IF session.streamingDetails.channelName # ""
                                       THEN "viewer" ELSE ""]
        /\ UNCHANGED <<users, now>>
        /\ UNCHANGED <<packages, transactions, inflight>>

\* The clock counts half seconds: the 1000 milliseconds of a second are two
\* ticks, so that Math.floor has something to cut off.
TicksPerSecond == 2

\* The durations the model follows, in seconds.
DurationRange == 0..(MaxStreamTime \div TicksPerSecond)

\* recordParticipantLeave that keeps the latest interval only.
recordParticipantLeave_latestOnly(session, u, t) ==
    LET i == participantIndex(session.participants, u)
    IN  IF i > 0 /\ session.participants[i].joinedAt # NoDate
        THEN [session EXCEPT
                !.participants[i].leaveAt = t,
                !.participants[i].duration =
                    (t - session.participants[i].joinedAt) \div TicksPerSecond]
        ELSE session

\* Session.recordParticipantLeave
recordParticipantLeave(session, u, t) ==
    LET i == participantIndex(session.participants, u)
    IN  IF i > 0 /\ session.participants[i].joinedAt # NoDate
        THEN [session EXCEPT
                !.participants[i].leaveAt = t,
                !.participants[i].duration =
                    @ + ((t - session.participants[i].joinedAt) \div TicksPerSecond)]
        ELSE session

\* The leaveStream the module exports (the second assignment).
leaveStreamResponse(caller, session) ==
    IF session.stored # "yes"
    THEN Reply(404, "Session not found")
    ELSE Reply(200, "Left stream successfully")

leaveStream(caller, sid) ==
    LET session == sessions[sid]
        r == leaveStreamResponse(caller, session)
        left == recordParticipantLeave(session, caller, now)
    IN  /\ res = NoRes
        /\ res' = Res("leaveStream", caller, sid, r)
        /\ IF r.code = 200
           THEN /\ \A i \in 1..Len(left.participants) :
                      left.participants[i].duration \in DurationRange
                /\ sessions' = [sessions EXCEPT ![sid] = left]
           ELSE UNCHANGED sessions
        /\ UNCHANGED <<users, now>>
        /\ UNCHANGED <<packages, transactions, inflight>>

(***************************************************************************)
(* Session analytics: the participant counts.                              *)
(***************************************************************************)
totalParticipants(session) == Len(session.participants)

attendedParticipants(session) ==
    Cardinality({i \in 1..Len(session.participants) :
                    session.participants[i].joinedAt # NoDate})

\* p.duration >= session.duration * 0.8, in tenths.
completedParticipants(session) ==
    Cardinality({i \in 1..Len(session.participants) :
                    /\ session.participants[i].joinedAt # NoDate
                    /\ session.participants[i].duration # 0
                    /\ 10 * session.participants[i].duration >= 8 * session.duration})

getSessionAnalyticsResponse(caller, session) ==
    IF session.stored # "yes"
    THEN Reply(404, "Session not found")
    ELSE IF session.trainer # caller /\ users[caller].role # "admin"
    THEN Reply(403, "Not authorized to view analytics for this session")
    ELSE Reply(200, "")

\* The response carries <<registered, attended, completed>>.
getSessionAnalytics(caller, sid) ==
    LET session == sessions[sid]
        r == getSessionAnalyticsResponse(caller, session)
    IN  /\ res = NoRes
        /\ IF ~isTrainer(caller)
           THEN res' = Res("getSessionAnalytics", caller, sid, TrainerAccessRequired)
           ELSE IF r.code # 200
           THEN res' = Res("getSessionAnalytics", caller, sid, r)
           ELSE res' = [Res("getSessionAnalytics", caller, sid, r) EXCEPT
                           !.data = <<totalParticipants(session),
                                      attendedParticipants(session),
                                      completedParticipants(session)>>]
        /\ UNCHANGED <<sessions, users, now>>
        /\ UNCHANGED <<packages, transactions, inflight>>

(***************************************************************************)
(* The booking and token ledger, requests served one at a time.            *)
(***************************************************************************)
CreateBodies ==
    [scheduledAt : {1}, duration : {1}, tokenCost : {0, 2}, maxParticipants : {0, 1}]

EmptyBody ==
    [scheduledAt |-> NoDate, duration |-> 0, tokenCost |-> 0, maxParticipants |-> <<>>,
     status |-> ""]

\* Bodies of updateSession that carry one field.
UpdateBodies ==
    {[EmptyBody EXCEPT !.tokenCost = c] : c \in {-1, 2}}
      \cup {[EmptyBody EXCEPT !.status = st] : st \in {"scheduled", "cancelled", "live", "paused"}}

Bookers == {"u1", "t1"}

\* This specification follows one session: the store's first.
FirstSession == NextSessionId = "s1"

Next ==
    \/ Tick
    \/ NextRequest
    \/ \E c \in {"u1", "t1"}, b \in CreateBodies : FirstSession /\ createSession(c, b)
    \/ \E c \in UserIds, s \in SessionIds, b \in UpdateBodies : updateSession(c, s, b)
    \/ \E c \in UserIds, s \in SessionIds, st \in {"scheduled", "cancelled", "live"} :
          updateSessionStatus(c, s, st)
    \/ \E u \in Bookers, s \in SessionIds : bookSession(u, s)
    \/ \E c \in {"u1", "a1"}, id \in Bookers, n \in {-1, 0, 1, 2}, o \in {"add", "subtract", ""} :
          updateTokens(c, id, n, o)

Spec == Init /\ [][Next]_vars

(***************************************************************************)
(* Properties of booking and refund.                                       *)
(***************************************************************************)
bookingCount(user, sid) ==
    Cardinality({i \in 1..Len(user.bookedSessions) : user.bookedSessions[i] = sid})

\* C2: when updateSessionStatus moves a scheduled session to cancelled, every
\* user who holds a booking for it is credited exactly the session's
\* tokenCost, every other user's balance stays as it was, and afterwards no
\* user holds a booking for the session.
C2_CancelRefundsEachBooker ==
    [][(/\ res'.op = "updateSessionStatus"
        /\ res'.code = 200
        /\ sessions[res'.session].status = "scheduled"
        /\ sessions'[res'.session].status = "cancelled")
       => \A u \in UserIds :
             /\ users'[u].tokens =
                   users[u].tokens + (IF bookingCount(users[u], res'.session) > 0
                                      THEN sessions[res'.session].tokenCost ELSE 0)
             /\ bookingCount(users'[u], res'.session) = 0]_vars

\* A cancellation has just been answered for a session whose roster holds two
\* users; both are without a booking and one of them holds refunded tokens
\* while a third user's balance is untouched.
C2_Witness ==
    /\ res.op = "updateSessionStatus" /\ res.code = 200
    /\ sessions["s1"].status = "cancelled"
    /\ Len(sessions["s1"].participants) = 2
    /\ sessions["s1"].participants[1].user # sessions["s1"].participants[2].user
    /\ sessions["s1"].tokenCost = 2
    /\ users["u1"].tokens = 2 /\ users["t1"].tokens = 2 /\ users["a1"].tokens = 0
    /\ \A u \in UserIds : users[u].bookedSessions = <<>>

\* C3: every user's token balance is at least zero in every reachable state.
C3_TokensNeverNegative == \A u \in UserIds : users[u].tokens >= 0

\* C4: right after a successful bookSession of session s by user u, the same
\* request is answered 400 'Session already booked', u holds exactly one
\* booking for s, and a bookSession by a user who holds a booking changes
\* neither tokens nor bookings nor the roster.
C4_JustBooked(u, s) ==
    res.op = "bookSession" /\ res.code = 200 /\ res.user = u /\ res.session = s

C4_SecondBookingRejected ==
    /\ [](\A u \in UserIds, s \in SessionIds :
            C4_JustBooked(u, s) =>
               /\ bookSessionResponse(users[u], sessions[s], s, now)
                     = Reply(400, "Session already booked")
               /\ bookingCount(users[u], s) = 1)
    /\ [][(res'.op = "bookSession" /\ bookingCount(users[res'.user], res'.session) > 0)
          => /\ res'.code = 400
             /\ users' = users
             /\ sessions' = sessions]_vars

\* A second bookSession by the same user for the same session has been
\* answered 'Session already booked'.
C4_Witness ==
    /\ res.op = "bookSession" /\ res.code = 400 /\ res.msg = "Session already booked"
    /\ bookingCount(users[res.user], res.session) = 1

\* C5: bookSession answers 400 and changes nothing when the session is in
\* the past, cancelled, already booked by the user, full (maxParticipants > 0
\* and participants.length >= maxParticipants: 'Session is full') or costs
\* more than the user's balance ('Insufficient tokens'); a session with
\* maxParticipants = 0 is never answered 'Session is full'.
C5_Past(s) == sessions[s].scheduledAt < now

C5_Full(s) ==
    sessions[s].maxParticipants > 0
       /\ Len(sessions[s].participants) >= sessions[s].maxParticipants

C5_BookingRejections ==
    [][(res'.op = "bookSession" /\ sessions[res'.session].stored = "yes")
       => LET u == res'.user
              s == res'.session
              cancelled == sessions[s].status = "cancelled"
              booked == bookingCount(users[u], s) > 0
              poor == users[u].tokens < sessions[s].tokenCost
          IN  /\ (C5_Past(s) \/ cancelled \/ booked \/ C5_Full(s) \/ poor)
                    => /\ res'.code = 400
                       /\ users' = users
                       /\ sessions' = sessions
              /\ (~C5_Past(s) /\ ~cancelled /\ ~booked /\ C5_Full(s))
                    => res'.msg = "Session is full"
              /\ (~C5_Past(s) /\ ~cancelled /\ ~booked /\ ~C5_Full(s) /\ poor)
                    => res'.msg = "Insufficient tokens"
              /\ sessions[s].maxParticipants = 0 => res'.msg # "Session is full"]_vars

\* A booking of a session with maxParticipants = 1 and one participant has
\* been answered 400 'Session is full'.
C5_Witness ==
    /\ res.op = "bookSession" /\ res.code = 400 /\ res.msg = "Session is full"
    /\ sessions[res.session].maxParticipants = 1
    /\ Len(sessions[res.session].participants) = 1

(***************************************************************************)
(* Two sessions side by side: the frame of a booking.                      *)
(***************************************************************************)
NextFrame ==
    \/ NextRequest
    \/ \E b \in CreateBodies : createSession("t1", b)
    \/ \E u \in UserIds, s \in SessionIds : bookSession(u, s)
    \/ \E id \in UserIds, n \in {1, 2} : updateTokens("a1", id, n, "")

SpecFrame == Init /\ [][NextFrame]_vars

\* C6: a successful bookSession lowers the booking user's balance by exactly
\* the session's tokenCost, appends one booking reference for the session to
\* the user and one participant entry for the user to the session, and
\* changes no other user, no other session and no other field.
C6_BookingEffect ==
    [][(res'.op = "bookSession" /\ res'.code = 200)
       => LET u == res'.user
              s == res'.session
          IN  /\ users'[u] = [users[u] EXCEPT
                                 !.tokens = @ - sessions[s].tokenCost,
                                 !.bookedSessions = @ \o <<s>>]
              /\ sessions'[s] = [sessions[s] EXCEPT
                                    !.participants = @ \o <<NewParticipant(u, NoDate)>>]
              /\ \A o \in UserIds \ {u} : users'[o] = users[o]
              /\ \A o \in SessionIds \ {s} : sessions'[o] = sessions[o]]_vars

\* A user who holds a booking for one session has just booked the other one,
\* which another user had booked before.
C6_Witness ==
    /\ res.op = "bookSession" /\ res.code = 200
    /\ users[res.user].bookedSessions = <<"s1", "s2">>
    /\ res.session = "s2"
    /\ Len(sessions["s2"].participants) = 2
    /\ sessions["s2"].participants[2].user = res.user

(***************************************************************************)
(* The lifecycle of one session: scheduled, live, completed, cancelled.    *)
(***************************************************************************)
StreamCreateBody ==
    [scheduledAt |-> MaxTime, duration |-> 1, tokenCost |-> 0, maxParticipants |-> 0]

StatusBodies ==
    {[EmptyBody EXCEPT !.status = st] :
        st \in {"scheduled", "cancelled", "live", "completed", "paused"}}
      \cup {[EmptyBody EXCEPT !.maxParticipants = <<1>>]}

NextStream ==
    \/ Tick
    \/ NextRequest
    \/ \E c \in {"t1", "a1"} : FirstSession /\ createSession(c, StreamCreateBody)
    \/ \E c \in UserIds, s \in SessionIds, b \in StatusBodies : updateSession(c, s, b)
    \/ \E c \in UserIds, s \in SessionIds : deleteSession(c, s)
    \/ \E c \in UserIds, s \in SessionIds,
          st \in {"scheduled", "cancelled", "live", "completed"} : updateSessionStatus(c, s, st)
    \/ \E c \in UserIds, s \in SessionIds : startStream(c, s)
    \/ \E c \in UserIds, s \in SessionIds : endStream(c, s)
    \/ \E c \in UserIds, s \in SessionIds : joinStream(c, s)
    \/ \E s \in SessionIds : bookSession("u1", s)
    \/ updateTokens("a1", "u1", 1, "")

SpecStream == Init /\ [][NextStream]_vars

Rejected(r) == r.code >= 400

\* The status changes of sessions that stay stored across a step.
StatusChanges(allowed) ==
    \A s \in SessionIds :
       (sessions[s].stored = "yes" /\ sessions'[s].stored = "yes"
          /\ sessions'[s].status # sessions[s].status)
       => <<sessions[s].status, sessions'[s].status>> \in allowed

\* C1 as stated: a session's status changes only along scheduled->live,
\* live->completed and scheduled->cancelled, a rejected request leaves the
\* sessions unchanged, and completed and cancelled are terminal.
C1_Original ==
    [][/\ StatusChanges({<<"scheduled", "live">>, <<"live", "completed">>,
                         <<"scheduled", "cancelled">>})
       /\ Rejected(res') => sessions' = sessions]_vars

\* C1 as amended: a session's status changes only along scheduled->live,
\* live->completed, scheduled->cancelled and cancelled->scheduled; a request
\* that is rejected leaves the sessions unchanged, and so does the status
\* field 'live' or 'completed' of an updateSession body; completed is terminal.
C1_StatusEdges ==
    [][/\ StatusChanges({<<"scheduled", "live">>, <<"live", "completed">>,
                         <<"scheduled", "cancelled">>, <<"cancelled", "scheduled">>})
       /\ Rejected(res') => sessions' = sessions
       /\ (res'.op = "updateSession" /\ sessions[res'.session].stored = "yes")
             => sessions'[res'.session].status \in {sessions[res'.session].status,
                                                     "scheduled", "cancelled"}]_vars

\* A session that was cancelled with a refund (its roster holds a user who
\* no longer holds the booking) has been set back to scheduled.
C1_Witness ==
    /\ res.op = "updateSessionStatus" /\ res.code = 200
    /\ sessions[res.session].status = "scheduled"
    /\ Len(sessions[res.session].participants) = 1
    /\ bookingCount(users[sessions[res.session].participants[1].user], res.session) = 0

\* C7: startStream succeeds exactly when the caller is the session's trainer
\* and the status is scheduled; otherwise it is rejected and changes nothing.
\* A successful start sets status live, channel name 'session_<id>' and the
\* start time, and every live session has that channel name and a start time.
C7_StartStream ==
    /\ [](\A s \in SessionIds :
            sessions[s].status = "live"
               => /\ sessions[s].streamingDetails.channelName = "session_" \o s
                  /\ sessions[s].streamingDetails.startedAt # NoDate)
    /\ [][res'.op = "startStream"
          => LET c == res'.user
                 s == res'.session
             IN  /\ res'.code = 200
                       <=> (sessions[s].stored = "yes" /\ sessions[s].trainer = c
                              /\ sessions[s].status = "scheduled")
                 /\ res'.code # 200 => (Rejected(res') /\ sessions' = sessions)
                 /\ res'.code = 200
                       => /\ sessions'[s].status = "live"
                          /\ sessions'[s].streamingDetails.channelName = "session_" \o s
                          /\ sessions'[s].streamingDetails.startedAt = now]_vars

\* The trainer has just started the session.
C7_Witness ==
    /\ res.op = "startStream" /\ res.code = 200
    /\ sessions[res.session].status = "live"
    /\ sessions[res.session].trainer = res.user

\* C8: endStream succeeds exactly when the caller is the session's trainer
\* and the status is live; otherwise it is rejected and changes nothing.  A
\* successful end sets status completed and the end time, and every
\* completed session has a start time and an end time.
C8_EndStream ==
    /\ [](\A s \in SessionIds :
            sessions[s].status = "completed"
               => /\ sessions[s].streamingDetails.startedAt # NoDate
                  /\ sessions[s].streamingDetails.endedAt # NoDate)
    /\ [][res'.op = "endStream"
          => LET c == res'.user
                 s == res'.session
             IN  /\ res'.code = 200
                       <=> (sessions[s].stored = "yes" /\ sessions[s].trainer = c
                              /\ sessions[s].status = "live")
                 /\ res'.code # 200 => (Rejected(res') /\ sessions' = sessions)
                 /\ res'.code = 200
                       => /\ sessions'[s].status = "completed"
                          /\ sessions'[s].streamingDetails.endedAt = now]_vars

\* The trainer has just ended the live session.
C8_Witness ==
    /\ res.op = "endStream" /\ res.code = 200
    /\ sessions[res.session].status = "completed"
    /\ sessions[res.session].trainer = res.user

\* C9: updateSession, deleteSession and updateSessionStatus on a live or
\* completed session are answered 400 for the owner and for an admin, for
\* every body, and leave the session stored and unchanged.
C9_LiveOrCompletedIsFrozen ==
    [][(/\ res'.op \in {"updateSession", "deleteSession", "updateSessionStatus"}
        /\ sessions[res'.session].stored = "yes"
        /\ sessions[res'.session].status \in {"live", "completed"}
        /\ (sessions[res'.session].trainer = res'.user \/ users[res'.user].role = "admin"))
       => /\ res'.code = 400
          /\ sessions' = sessions
          /\ users' = users]_vars

\* An admin who does not own the live session has been refused its deletion.
C9_Witness ==
    /\ res.op = "deleteSession" /\ res.code = 400
    /\ sessions[res.session].status = "live"
    /\ sessions[res.session].trainer # res.user

\* C10: joinStream succeeds only on a live session and only for the
\* session's trainer or a user who holds a booking for it; for every other
\* caller the roster stays as it was.
C10_MayJoin(c, s) ==
    /\ sessions[s].stored = "yes"
    /\ sessions[s].status = "live"
    /\ (sessions[s].trainer = c \/ bookingCount(users[c], s) > 0)

C10_JoinNeedsBooking ==
    [][res'.op = "joinStream"
       => /\ res'.code = 200 => C10_MayJoin(res'.user, res'.session)
          /\ ~C10_MayJoin(res'.user, res'.session) => sessions' = sessions]_vars

(***************************************************************************)
(* Attendance: joins and leaves of one live session over a longer clock.   *)
(***************************************************************************)
\* Time passes while the stream runs.
Wait ==
    /\ res = NoRes
    /\ now < MaxStreamTime
    /\ now' = now + 1
    /\ UNCHANGED <<sessions, users, res>>
    /\ UNCHANGED <<packages, transactions, inflight>>

AttendCreateBody ==
    [scheduledAt |-> MaxStreamTime, duration |-> 1, tokenCost |-> 0, maxParticipants |-> 0]

NextAttend ==
    \/ Wait
    \/ NextRequest
    \/ FirstSession /\ createSession("t1", AttendCreateBody)
    \/ \E s \in SessionIds : startStream("t1", s)
    \/ \E s \in SessionIds : endStream("t1", s)
    \/ \E s \in SessionIds : joinStream("a1", s)
    \/ \E s \in SessionIds : leaveStream("a1", s)
    \/ \E s \in SessionIds : bookSession("u1", s)
    \/ updateTokens("a1", "u1", 1, "")
    \/ \E c \in UserIds, s \in SessionIds : getSessionAnalytics(c, s)

SpecAttend == Init /\ [][NextAttend]_vars

\* The participant entry of user u in session s, before and after a step.
C11_Entry(s, u) == sessions[s].participants[participantIndex(sessions[s].participants, u)]

C11_EntryAfter(s, u) == sessions'[s].participants[participantIndex(sessions[s].participants, u)]

\* C11: a leave of a participant who is joined adds the whole seconds between
\* the join and the leave to the participant's duration, a (re)join keeps the
\* duration and restarts the interval, and no other request changes it; so
\* join, leave, join, leave leaves the sum of both intervals, and k cycles
\* the sum of all k.
C11_DurationAccumulates ==
    [][\A s \in SessionIds, u \in UserIds :
          (sessions[s].stored = "yes" /\ participantIndex(sessions[s].participants, u) > 0)
          => LET before == C11_Entry(s, u)
                 after == C11_EntryAfter(s, u)
                 mine == res'.code = 200 /\ res'.session = s /\ res'.user = u
             IN  /\ (mine /\ res'.op = "leaveStream"
                       /\ before.joinedAt # NoDate /\ before.leaveAt = NoDate)
                       => /\ after.duration * TicksPerSecond <= 
                                before.duration * TicksPerSecond + (now - before.joinedAt)
                          /\ (after.duration + 1) * TicksPerSecond >
                                before.duration * TicksPerSecond + (now - before.joinedAt)
                          /\ after.leaveAt = now
                 /\ (mine /\ res'.op = "joinStream")
                       => /\ after.duration = before.duration
                          /\ after.joinedAt = now
                          /\ after.leaveAt = NoDate
                 /\ ~(mine /\ res'.op = "leaveStream") => after.duration = before.duration]_vars

\* A participant who joined again after a first interval has just left for
\* the second time: the duration is two seconds, one from each interval,
\* while the last interval alone is one.
C11_Witness ==
    /\ res.op = "leaveStream" /\ res.code = 200
    /\ participantIndex(sessions[res.session].participants, res.user) > 0
    /\ C11_Entry(res.session, res.user).joinedAt >= 1 + TicksPerSecond
    /\ C11_Entry(res.session, res.user).duration = 2
    /\ C11_Entry(res.session, res.user).leaveAt = now
    /\ (now - C11_Entry(res.session, res.user).joinedAt) \div TicksPerSecond = 1

\* The seconds of a minute: Session.duration is in minutes, a participant's
\* duration in seconds.
SecondsPerMinute == 60

\* C20: the 'completed' count of a session's analytics is the number of
\* participants with a join timestamp whose tracked duration is at least 80%
\* of the session's scheduled duration, both taken in seconds, and
\* completed <= attended <= registered.
C20_CompletedCount ==
    (res.op = "getSessionAnalytics" /\ res.code = 200)
    => LET session == sessions[res.session]
           scheduledSeconds == session.duration * SecondsPerMinute
       IN  /\ res.data[3] =
                 Cardinality({i \in 1..Len(session.participants) :
                                 /\ session.participants[i].joinedAt # NoDate
                                 /\ 10 * session.participants[i].duration >= 8 * scheduledSeconds})
           /\ res.data[3] <= res.data[2]
           /\ res.data[2] <= res.data[1]

(***************************************************************************)
(* Ratings.                                                                *)
(***************************************************************************)
RECURSIVE ratingSum(_)
ratingSum(ratings) ==
    IF ratings = <<>> THEN 0 ELSE Head(ratings).rating + ratingSum(Tail(ratings))

\* (sum / count).toFixed(1), in tenths: the nearest tenth, the larger one of
\* two that are equally near.
toFixed1(sum, count) == (20 * sum + count) \div (2 * count)

\* Session.calculateAverageRating
calculateAverageRating(session) ==
    IF Len(session.ratings) = 0
    THEN [session EXCEPT !.averageRating = 0]
    ELSE [session EXCEPT
            !.averageRating = toFixed1(ratingSum(session.ratings), Len(session.ratings))]

wasParticipant(session, caller) ==
    \E i \in 1..Len(session.participants) : session.participants[i].user = caller

alreadyRated(session, caller) ==
    \E i \in 1..Len(session.ratings) : session.ratings[i].user = caller

rateSessionResponse(caller, session, rating) ==
    IF rating = 0 \/ rating < 1 \/ rating > 5
    THEN Reply(400, "Rating must be between 1 and 5")
    ELSE IF session.stored # "yes"
    THEN Reply(404, "Session not found")
    ELSE IF session.status # "completed"
    THEN Reply(400, "Can only rate completed sessions")
    ELSE IF ~wasParticipant(session, caller)
    THEN Reply(403, "You must participate in the session to rate it")
    ELSE Reply(200, "Session rated successfully")

\* A resubmission that adds a second entry instead of overwriting the first.
ratedSession_duplicates(session, caller, rating, t) ==
    [session EXCEPT
       !.ratings = Append(@, [user |-> caller, rating |-> rating, createdAt |-> t])]

\* The ratings of the session after the caller's rating went in.
ratedSession(session, caller, rating, t) ==
    IF alreadyRated(session, caller)
    THEN [session EXCEPT
            !.ratings = [i \in 1..Len(@) |->
                            IF @[i].user = caller
                            THEN [@[i] EXCEPT !.rating = rating, !.createdAt = t]
                            ELSE @[i]]]
    ELSE [session EXCEPT
            !.ratings = Append(@, [user |-> caller, rating |-> rating, createdAt |-> t])]

alreadyCompleted(user, sid) ==
    \E i \in 1..Len(user.completedSessions) : user.completedSessions[i].session = sid

\* The rater's document: a first rating files the session under
\* completedSessions.
raterAfter(user, session, sid, caller, rating) ==
    IF ~alreadyRated(session, caller) /\ ~alreadyCompleted(user, sid)
    THEN [user EXCEPT !.completedSessions = Append(@, [session |-> sid, rating |-> rating])]
    ELSE user

\* The ratings of all sessions of a trainer, one after the other.
RECURSIVE trainerRatings(_, _, _)
trainerRatings(sess, trainer, ids) ==
    IF ids = {} THEN <<>>
    ELSE LET s == CHOOSE x \in ids : TRUE
         IN  (IF sess[s].stored = "yes" /\ sess[s].trainer = trainer
              THEN sess[s].ratings ELSE <<>>)
                \o trainerRatings(sess, trainer, ids \ {s})

\* "Update trainer rating" kept as a running count: one more per request.
trainerAfter_incremental(trainer, sess, id) ==
    LET all == trainerRatings(sess, id, SessionIds)
    IN  IF Len(all) > 0
        THEN [trainer EXCEPT !.trainerProfile.rating = toFixed1(ratingSum(all), Len(all)),
                             !.trainerProfile.totalRatings = @ + 1]
        ELSE trainer

\* "Update trainer rating": the rescan of the trainer's sessions.
trainerAfter(trainer, sess, id) ==
    LET all == trainerRatings(sess, id, SessionIds)
    IN  IF Len(all) > 0
        THEN [trainer EXCEPT !.trainerProfile.rating = toFixed1(ratingSum(all), Len(all)),
                             !.trainerProfile.totalRatings = Len(all)]
        ELSE trainer

rateSession(caller, sid, rating) ==
    LET session == sessions[sid]
        r == rateSessionResponse(caller, session, rating)
        rated == calculateAverageRating(ratedSession(session, caller, rating, now))
        sess == [sessions EXCEPT ![sid] = rated]
        usrs == [users EXCEPT ![caller] = raterAfter(@, session, sid, caller, rating)]
    IN  /\ res = NoRes
        /\ IF r.code # 200
           THEN /\ res' = Res("rateSession", caller, sid, r)
                /\ UNCHANGED <<sessions, users>>
           ELSE /\ sessions' = sess
                /\ users' = [usrs EXCEPT
                                ![session.trainer] = trainerAfter(@, sess, session.trainer)]
                /\ res' = [Res("rateSession", caller, sid, r) EXCEPT
                              !.data = <<rating, rated.averageRating>>]
        /\ UNCHANGED now
        /\ UNCHANGED <<packages, transactions, inflight>>

(***************************************************************************)
(* Two sessions of one trainer, run to completion and rated.               *)
(***************************************************************************)
RateCreateBody ==
    [scheduledAt |-> 1, duration |-> 1, tokenCost |-> 0, maxParticipants |-> 0]

Ratings == {0, 1, 2, 6}

NextRate ==
    \/ NextRequest
    \/ createSession("t1", RateCreateBody)
    \/ \E s \in SessionIds : startStream("t1", s)
    \/ \E s \in SessionIds : endStream("t1", s)
    \/ \E s \in SessionIds : joinStream("a1", s)
    \/ joinStream("t1", "s1")
    \/ bookSession("u1", "s1")
    \/ updateTokens("a1", "u1", 1, "")
    \/ \E c \in {"u1", "a1"}, s \in SessionIds, n \in Ratings : rateSession(c, s, n)
    \/ \E s \in SessionIds : rateSession("t1", s, 1)

SpecRate == Init /\ [][NextRate]_vars

\* The user has a recorded join event on the session.
C12_Joined(session, u) ==
    \E i \in 1..Len(session.participants) :
        session.participants[i].user = u /\ session.participants[i].joinedAt # NoDate

\* C12: rateSession records a rating only when the session is completed and
\* the rater has a recorded join event on it; a request on a stored session
\* that is not completed is answered 400 'Can only rate completed sessions'
\* (a rating outside 1..5: 400 'Rating must be between 1 and 5'), a request
\* by a user without a join event is rejected, and in both cases ratings and
\* averageRating stay as they were.
C12_OnlyParticipantsRate ==
    [][res'.op = "rateSession"
       => LET s == res'.session
              c == res'.user
              kept == /\ sessions'[s].ratings = sessions[s].ratings
                      /\ sessions'[s].averageRating = sessions[s].averageRating
          IN  /\ ~kept => (sessions[s].status = "completed" /\ C12_Joined(sessions[s], c))
              /\ (sessions[s].stored = "yes" /\ sessions[s].status # "completed")
                    => /\ res'.code = 400
                       /\ res'.msg \in {"Can only rate completed sessions",
                                        "Rating must be between 1 and 5"}
                       /\ kept
              /\ ~C12_Joined(sessions[s], c) => (Rejected(res') /\ kept)]_vars

\* The one-decimal number a (in tenths) is the mean of the ratings rounded to
\* one decimal place: no tenth is nearer to sum / count.
C13_IsRoundedMean(a, ratings) ==
    IF ratings = <<>>
    THEN a = 0
    ELSE LET d == 10 * ratingSum(ratings) - a * Len(ratings)
         IN  2 * d <= Len(ratings) /\ -2 * d <= Len(ratings)

C13_RatingsOf(session, u) == {i \in 1..Len(session.ratings) : session.ratings[i].user = u}

\* C13: every session holds at most one rating entry per user and its
\* averageRating is the mean of its rating values rounded to one decimal
\* place; after a successful rateSession the caller's entry carries the
\* submitted value.
C13_OneRatingPerUser ==
    /\ \A s \in SessionIds :
          /\ \A u \in UserIds : Cardinality(C13_RatingsOf(sessions[s], u)) <= 1
          /\ C13_IsRoundedMean(sessions[s].averageRating, sessions[s].ratings)
    /\ (res.op = "rateSession" /\ res.code = 200)
          => \E i \in C13_RatingsOf(sessions[res.session], res.user) :
                sessions[res.session].ratings[i].rating = res.data[1]

\* A user has just replaced an earlier rating (the one filed under
\* completedSessions) by a different value on a session that holds three
\* ratings whose mean, 5/3, is rounded to 1.7.
C13_Witness ==
    /\ res.op = "rateSession" /\ res.code = 200
    /\ Len(sessions[res.session].ratings) = 3
    /\ \E i \in 1..Len(users[res.user].completedSessions) :
          /\ users[res.user].completedSessions[i].session = res.session
          /\ users[res.user].completedSessions[i].rating # res.data[1]
    /\ sessions[res.session].averageRating = 17

\* C14: right after a successful rateSession the session's trainer holds, as
\* aggregate rating, the mean of the rating values of all the trainer's
\* sessions rounded to one decimal place, and as totalRatings their number.
C14_TrainerAggregate ==
    (res.op = "rateSession" /\ res.code = 200)
    => LET id == sessions[res.session].trainer
           mine == {s \in SessionIds : sessions[s].stored = "yes" /\ sessions[s].trainer = id}
           count == Cardinality({<<s, i>> \in mine \X (1..MaxRoster + 1) :
                                    i <= Len(sessions[s].ratings)})
           sum == ratingSum(trainerRatings(sessions, id, SessionIds))
           d == 10 * sum - users[id].trainerProfile.rating * count
       IN  /\ users[id].trainerProfile.totalRatings = count
           /\ 2 * d <= count /\ -2 * d <= count

\* The trainer's aggregate covers three ratings spread over both sessions
\* and their mean is not a whole number.
C14_Witness ==
    /\ res.op = "rateSession" /\ res.code = 200
    /\ sessions["s1"].ratings # <<>> /\ sessions["s2"].ratings # <<>>
    /\ users["t1"].trainerProfile.totalRatings = 3
    /\ users["t1"].trainerProfile.rating \in {13, 17}

(***************************************************************************)
(* Token packages and their purchase.                                      *)
(***************************************************************************)
isAdmin(u) == users[u].role = "admin"

AdminAccessRequired == Reply(403, "Admin access required")

FreshPackages == {p \in PackageIds : ~packages[p].stored}

NextPackageId == IF "p1" \in FreshPackages THEN "p1" ELSE "p2"

\* A body field that is not sent is <<>>; validUntil: null is <<NoDate>>.
NewPackage(body) ==
    [stored |-> TRUE, tokenAmount |-> body.tokenAmount, price |-> body.price,
     isPromotion |-> IF body.isPromotion = <<>> THEN FALSE ELSE body.isPromotion[1],
     validUntil |-> IF body.validUntil = <<>> THEN NoDate ELSE body.validUntil[1],
     active |-> IF body.active = <<>> THEN TRUE ELSE body.active[1]]

createPackageResponse(body) ==
    IF body.tokenAmount = 0 \/ body.price = 0
    THEN Reply(400, "Name, token amount, and price are required")
    ELSE Reply(201, "")

createPackage(caller, body) ==
    LET r == createPackageResponse(body)
    IN  /\ res = NoRes
        /\ FreshPackages # {}
        /\ IF ~isAdmin(caller)
           THEN /\ res' = Res("createPackage", caller, "", AdminAccessRequired)
                /\ UNCHANGED packages
           ELSE IF r.code # 201
           THEN /\ res' = Res("createPackage", caller, "", r)
                /\ UNCHANGED packages
           ELSE /\ res' = Res("createPackage", caller, NextPackageId, r)
                /\ packages' = [packages EXCEPT ![NextPackageId] = NewPackage(body)]
        /\ UNCHANGED <<sessions, users, transactions, inflight, now>>

updatedPackage(pkg, body) ==
    [pkg EXCEPT
       !.tokenAmount = IF body.tokenAmount # 0 THEN body.tokenAmount ELSE @,
       !.price = IF body.price # 0 THEN body.price ELSE @,
       !.isPromotion = IF body.isPromotion # <<>> THEN body.isPromotion[1] ELSE @,
       !.validUntil = IF body.validUntil # <<>> THEN body.validUntil[1] ELSE @,
       !.active = IF body.active # <<>> THEN body.active[1] ELSE @]

PackageNotFound == Reply(404, "Package not found")

updatePackage(caller, id, body) ==
    /\ res = NoRes
    /\ IF ~isAdmin(caller)
       THEN /\ res' = Res("updatePackage", caller, id, AdminAccessRequired)
            /\ UNCHANGED packages
       ELSE IF ~packages[id].stored
       THEN /\ res' = Res("updatePackage", caller, id, PackageNotFound)
            /\ UNCHANGED packages
       ELSE /\ res' = Res("updatePackage", caller, id, Reply(200, ""))
            /\ packages' = [packages EXCEPT ![id] = updatedPackage(@, body)]
    /\ UNCHANGED <<sessions, users, transactions, inflight, now>>

\* A deletePackage that removes the document.
deactivated_removed(pkg) == NoPackage

\* "Instead of hard delete, just set to inactive"
deactivated(pkg) == [pkg EXCEPT !.active = FALSE]

deletePackage(caller, id) ==
    /\ res = NoRes
    /\ IF ~isAdmin(caller)
       THEN /\ res' = Res("deletePackage", caller, id, AdminAccessRequired)
            /\ UNCHANGED packages
       ELSE IF ~packages[id].stored
       THEN /\ res' = Res("deletePackage", caller, id, PackageNotFound)
            /\ UNCHANGED packages
       ELSE /\ res' = Res("deletePackage", caller, id,
                          Reply(200, "Package deactivated successfully"))
            /\ packages' = [packages EXCEPT ![id] = deactivated(@)]
    /\ UNCHANGED <<sessions, users, transactions, inflight, now>>

PaymentMethods == {"credit_card", "paypal", "stripe", "other"}

\* The checks of purchasePackage up to the transaction record.
purchasePackageResponse(pkg, paymentMethod, t) ==
    IF paymentMethod = ""
    THEN Reply(400, "Payment method is required")
    ELSE IF ~pkg.stored
    THEN PackageNotFound
    ELSE IF ~pkg.active
    THEN Reply(400, "This package is not available for purchase")
    ELSE IF pkg.isPromotion /\ pkg.validUntil # NoDate /\ pkg.validUntil < t
    THEN Reply(400, "This promotion has expired")
    ELSE IF paymentMethod \notin PaymentMethods
    THEN \* transaction.save() fails the schema's enum; the error handler answers
         Reply(500, "Validation failed")
    ELSE Reply(200, "Purchase successful")

\* A transaction saved as it was constructed.
newTransaction_pending(caller, id, pkg) ==
    [user |-> caller, package |-> id, tokenAmount |-> pkg.tokenAmount,
     amount |-> pkg.price, status |-> "pending"]

\* The transaction record as it is saved.
newTransaction(caller, id, pkg) ==
    [user |-> caller, package |-> id, tokenAmount |-> pkg.tokenAmount,
     amount |-> pkg.price, status |-> "completed"]

purchasePackage(caller, id, paymentMethod) ==
    LET pkg == packages[id]
        r == purchasePackageResponse(pkg, paymentMethod, now)
    IN  /\ res = NoRes
        /\ res' = Res("purchasePackage", caller, id, r)
        /\ IF r.code = 200
           THEN /\ users[caller].tokens + pkg.tokenAmount \in TokenRange
                /\ transactions' = Append(transactions, newTransaction(caller, id, pkg))
                /\ users' = [users EXCEPT ![caller].tokens = @ + pkg.tokenAmount]
           ELSE UNCHANGED <<transactions, users>>
        /\ UNCHANGED <<sessions, packages, inflight, now>>

(***************************************************************************)
(* The package store, requests served one at a time.                       *)
(***************************************************************************)
EmptyPackageBody ==
    [tokenAmount |-> 0, price |-> 0, isPromotion |-> <<>>, validUntil |-> <<>>, active |-> <<>>]

PackageCreateBodies ==
    [tokenAmount : {0, 1}, price : {1}, isPromotion : {<<>>, <<TRUE>>},
     validUntil : {<<1>>}, active : {<<>>, <<FALSE>>}]

\* Bodies of updatePackage that carry one field; none of them deactivates.
PackageUpdateBodies ==
    {[EmptyPackageBody EXCEPT !.active = <<TRUE>>],
     [EmptyPackageBody EXCEPT !.tokenAmount = 2],
     [EmptyPackageBody EXCEPT !.validUntil = <<MaxTime>>]}

NextPackage ==
    \/ Tick
    \/ NextRequest
    \/ \E c \in {"a1", "t1"}, b \in PackageCreateBodies : createPackage(c, b)
    \/ \E c \in {"a1", "t1"}, p \in PackageIds, b \in PackageUpdateBodies : updatePackage(c, p, b)
    \/ \E c \in {"a1", "t1"}, p \in PackageIds : deletePackage(c, p)
    \/ \E p \in PackageIds, m \in {"", "credit_card", "cash"} : purchasePackage("u1", p, m)

SpecPackage == Init /\ [][NextPackage]_vars

C18_Expired(pkg) == pkg.isPromotion /\ pkg.validUntil # NoDate /\ pkg.validUntil < now

\* C18: a successful purchasePackage adds exactly one transaction, of status
\* completed, with the package's tokenAmount and price, and raises the
\* buyer's balance by the package's tokenAmount and nobody else's; the
\* purchase of an inactive package or of an expired promotion is answered 400
\* and leaves transactions and balances as they were; no stored transaction
\* is pending.
C18_Purchase ==
    /\ [](\A i \in 1..Len(transactions) : transactions[i].status = "completed")
    /\ [][res'.op = "purchasePackage"
          => LET c == res'.user
                 pkg == packages[res'.session]
             IN  /\ res'.code = 200
                    => /\ Len(transactions') = Len(transactions) + 1
                       /\ SubSeq(transactions', 1, Len(transactions)) = transactions
                       /\ transactions'[Len(transactions')] =
                             [user |-> c, package |-> res'.session,
                              tokenAmount |-> pkg.tokenAmount, amount |-> pkg.price,
                              status |-> "completed"]
                       /\ users' = [users EXCEPT ![c].tokens = @ + pkg.tokenAmount]
                 /\ res'.code # 200 => (transactions' = transactions /\ users' = users)
                 /\ (pkg.stored /\ (~pkg.active \/ C18_Expired(pkg)))
                    => res'.code = 400]_vars

\* A user who bought a package before has just bought a promotion that is
\* still valid: two transactions, two tokens.
C18_Witness ==
    /\ res.op = "purchasePackage" /\ res.code = 200
    /\ Len(transactions) = 2
    /\ packages[res.session].isPromotion
    /\ packages[res.session].validUntil >= now
    /\ users[res.user].tokens = 2

\* C19: no request removes a stored package; a successful deletePackage
\* changes the package's active flag to false and nothing else; a package
\* that is not active is not purchased, and only updatePackage makes an
\* inactive package active.
C19_SoftDelete ==
    [][/\ \A p \in PackageIds : packages[p].stored => packages'[p].stored
       /\ (res'.op = "deletePackage" /\ res'.code = 200)
             => /\ packages[res'.session].stored
                /\ packages' = [packages EXCEPT ![res'.session].active = FALSE]
       /\ (res'.op = "purchasePackage" /\ res'.code = 200) => packages[res'.session].active
       /\ \A p \in PackageIds :
             (packages[p].stored /\ ~packages[p].active /\ packages'[p].active)
                => (res'.op = "updatePackage" /\ res'.session = p)]_vars

\* A package that was bought while active has been deactivated, and its
\* purchase has just been refused.
C19_Witness ==
    /\ res.op = "purchasePackage" /\ res.code = 400
    /\ res.msg = "This package is not available for purchase"
    /\ packages[res.session].stored /\ ~packages[res.session].active
    /\ \E i \in 1..Len(transactions) : transactions[i].package = res.session

(***************************************************************************)
(* Streaming details: who is handed which credential.                      *)
(***************************************************************************)
\* "Buffer time for trainers to start early"
bufferMinutes == 15

\* (scheduledTime - now) / (1000 * 60) <= bufferMinutes, in clock ticks.
withinBuffer(session, t) ==
    session.scheduledAt - t <= bufferMinutes * SecondsPerMinute * TicksPerSecond

isSessionHost(caller, session) == isTrainer(caller) /\ session.trainer = caller

\* The reply of getStreamingDetails and the credential it carries.
Details(code, msg, cred) == [code |-> code, msg |-> msg, cred |-> cred]

\* getStreamingDetails without the booking check.
getStreamingDetailsResponse_noBookingCheck(caller, session, sid, t) ==
    IF session.stored # "yes"
    THEN Details(404, "Session not found", "")
    ELSE IF session.status = "cancelled"
    THEN Details(400, "This session has been cancelled", "")
    ELSE IF session.status = "completed"
    THEN Details(400, "This session has ended", "")
    ELSE IF isSessionHost(caller, session) /\ session.status = "scheduled"
            /\ withinBuffer(session, t)
    THEN Details(200, "Session not yet started. Use start endpoint to begin streaming.", "")
    ELSE IF isSessionHost(caller, session) /\ session.status = "live"
            /\ session.streamingDetails.channelName # ""
    THEN Details(200, "", "host")
    ELSE IF isSessionHost(caller, session) /\ session.status = "scheduled"
    THEN Details(400, "Stream can be started 15 minutes before scheduled time", "")
    ELSE IF session.status = "scheduled"
    THEN Details(400, "Stream has not started yet", "")
    ELSE IF session.status = "live"
    THEN Details(200, "", "viewer")
    ELSE Details(400, "Unable to determine stream status", "")

getStreamingDetailsResponse(caller, session, sid, t) ==
    IF session.stored # "yes"
    THEN Details(404, "Session not found", "")
    ELSE IF ~isSessionHost(caller, session) /\ ~alreadyBooked(users[caller], sid)
    THEN Details(403, "You must book this session to join", "")
    ELSE IF session.status = "cancelled"
    THEN Details(400, "This session has been cancelled", "")
    ELSE IF session.status = "completed"
    THEN Details(400, "This session has ended", "")
    ELSE IF isSessionHost(caller, session) /\ session.status = "scheduled"
            /\ withinBuffer(session, t)
    THEN Details(200, "Session not yet started. Use start endpoint to begin streaming.", "")
    ELSE IF isSessionHost(caller, session) /\ session.status = "live"
            /\ session.streamingDetails.channelName # ""
    THEN Details(200, "", "host")
    ELSE IF isSessionHost(caller, session) /\ session.status = "scheduled"
    THEN Details(400, "Stream can be started 15 minutes before scheduled time", "")
    ELSE IF session.status = "scheduled"
    THEN Details(400, "Stream has not started yet", "")
    ELSE IF session.status = "live"
    THEN Details(200, "", "viewer")
    ELSE Details(400, "Unable to determine stream status", "")

getStreamingDetails(caller, sid) ==
    LET r == getStreamingDetailsResponse(caller, sessions[sid], sid, now)
    IN  /\ res = NoRes
        /\ res' = [Res("getStreamingDetails", caller, sid, r) EXCEPT !.cred = r.cred]
        /\ UNCHANGED <<sessions, users, now>>
        /\ UNCHANGED <<packages, transactions, inflight>>

\* Sessions that start now and sessions that start after the buffer.
DetailsCreateBodies ==
    [scheduledAt : {1, 2 + bufferMinutes * SecondsPerMinute * TicksPerSecond},
     duration : {1}, tokenCost : {0}, maxParticipants : {0}]

NextDetails ==
    \/ NextRequest
    \/ \E c \in {"t1", "a1"}, b \in DetailsCreateBodies : FirstSession /\ createSession(c, b)
    \/ \E c \in {"t1", "a1"}, s \in SessionIds : startStream(c, s)
    \/ \E c \in {"t1", "a1"}, s \in SessionIds : endStream(c, s)
    \/ \E c \in {"t1", "a1"}, s \in SessionIds, st \in {"scheduled", "cancelled"} :
          updateSessionStatus(c, s, st)
    \/ \E u \in {"u1", "t1"}, s \in SessionIds : bookSession(u, s)
    \/ \E id \in {"u1", "t1"} : updateTokens("a1", id, 1, "")
    \/ \E c \in UserIds, s \in SessionIds : getStreamingDetails(c, s)

SpecDetails == Init /\ [][NextDetails]_vars

\* C17: getStreamingDetails hands a host credential only to a caller with
\* the trainer or admin role who owns the session, a viewer credential only
\* to a caller who holds a booking for the session and only while it is
\* live, and no credential for a session that is scheduled, cancelled or
\* completed.
C17_Credentials ==
    res.op = "getStreamingDetails"
    => LET c == res.user
           session == sessions[res.session]
       IN  /\ res.cred = "host"
                => (users[c].role \in {"trainer", "admin"} /\ session.trainer = c)
           /\ res.cred = "viewer"
                => (bookingCount(users[c], res.session) > 0 /\ session.status = "live")
           /\ res.cred # "" => (session.stored = "yes" /\ session.status = "live")
           /\ res.cred \in {"", "host", "viewer"}

\* A trainer who does not own the live session but booked it has been handed
\* a viewer credential.
C17_Witness ==
    /\ res.op = "getStreamingDetails" /\ res.code = 200 /\ res.cred = "viewer"
    /\ users[res.user].role = "trainer"
    /\ sessions[res.session].trainer # res.user
    /\ sessions[res.session].status = "live"

(***************************************************************************)
(* Requests in flight together.  A handler runs up to its next await, so   *)
(* every read (findById) and every write (save) of bookSession and of      *)
(* purchasePackage is a step of its own, and the steps of two requests     *)
(* interleave.                                                             *)
(***************************************************************************)
Done(slot, r) == [slot EXCEPT !.pc = "done", !.code = r.code, !.msg = r.msg]

\* session = await Session.findById(req.params.id)
bookFindSession(r, u, sid) ==
    /\ inflight[r].pc = "idle"
    /\ inflight' = [inflight EXCEPT ![r] =
                       [Idle EXCEPT !.op = "bookSession", !.pc = "findUser", !.caller = u,
                                    !.id = sid, !.session = sessions[sid]]]
    /\ UNCHANGED <<sessions, users, packages, transactions, now, res>>

\* user = await User.findById(req.user.id), and the checks up to the first save
bookFindUser(r) ==
    LET slot == inflight[r]
        user == users[slot.caller]
        resp == bookSessionResponse(user, slot.session, slot.id, now)
    IN  /\ slot.op = "bookSession" /\ slot.pc = "findUser"
        /\ inflight' = [inflight EXCEPT ![r] =
                           IF resp.code = 200
                           THEN [slot EXCEPT !.user = user, !.pc = "saveUser"]
                           ELSE Done([slot EXCEPT !.user = user], resp)]
        /\ UNCHANGED <<sessions, users, packages, transactions, now, res>>

\* A save that adds the request's change to the stored balance.
savedTokens_increment(stored, read, change) == stored + change

\* user.save() of a document whose tokens were assigned: the stored balance
\* becomes the balance the request read plus the request's change.
savedTokens(stored, read, change) == read + change

\* A save that writes the array as the request read it, with the new entry.
savedArray_overwrite(stored, read, entry) == Append(read, entry)

\* save() of a document whose array was pushed to: the entry is appended to
\* the stored array.
savedArray(stored, read, entry) == Append(stored, entry)

\* await user.save()
bookSaveUser(r) ==
    LET slot == inflight[r]
        u == slot.caller
        tokens == savedTokens(users[u].tokens, slot.user.tokens, 0 - slot.session.tokenCost)
    IN  /\ slot.op = "bookSession" /\ slot.pc = "saveUser"
        /\ tokens \in TokenRange
        /\ users' = [users EXCEPT
                        ![u].tokens = tokens,
                        ![u].bookedSessions = savedArray(@, slot.user.bookedSessions, slot.id)]
        /\ inflight' = [inflight EXCEPT ![r].pc = "saveSession"]
        /\ UNCHANGED <<sessions, packages, transactions, now, res>>

\* await session.save(), and the response
bookSaveSession(r) ==
    LET slot == inflight[r]
    IN  /\ slot.op = "bookSession" /\ slot.pc = "saveSession"
        /\ Len(sessions[slot.id].participants) < MaxRoster
        /\ sessions' = [sessions EXCEPT
                           ![slot.id].participants =
                               savedArray(@, slot.session.participants,
                                          NewParticipant(slot.caller, NoDate))]
        /\ inflight' = [inflight EXCEPT ![r] = Done(slot, Reply(200, "Session booked successfully"))]
        /\ UNCHANGED <<users, packages, transactions, now, res>>

\* pkg = await Package.findById(req.params.id), and the checks
purchaseFindPackage(r, u, id, paymentMethod) ==
    LET resp == purchasePackageResponse(packages[id], paymentMethod, now)
        slot == [Idle EXCEPT !.op = "purchasePackage", !.caller = u, !.id = id,
                             !.package = packages[id]]
    IN  /\ inflight[r].pc = "idle"
        /\ inflight' = [inflight EXCEPT ![r] =
                           IF resp.code = 200
                           THEN [slot EXCEPT !.pc = "findUser"]
                           ELSE Done(slot, resp)]
        /\ UNCHANGED <<sessions, users, packages, transactions, now, res>>

\* user = await User.findById(req.user.id)
purchaseFindUser(r) ==
    LET slot == inflight[r]
    IN  /\ slot.op = "purchasePackage" /\ slot.pc = "findUser"
        /\ inflight' = [inflight EXCEPT ![r] =
                           [slot EXCEPT !.user = users[slot.caller], !.pc = "saveTransaction"]]
        /\ UNCHANGED <<sessions, users, packages, transactions, now, res>>

\* await transaction.save()
purchaseSaveTransaction(r) ==
    LET slot == inflight[r]
    IN  /\ slot.op = "purchasePackage" /\ slot.pc = "saveTransaction"
        /\ transactions' = Append(transactions, newTransaction(slot.caller, slot.id, slot.package))
        /\ inflight' = [inflight EXCEPT ![r].pc = "saveUser"]
        /\ UNCHANGED <<sessions, users, packages, now, res>>

\* await user.save(), and the response
purchaseSaveUser(r) ==
    LET slot == inflight[r]
        u == slot.caller
        tokens == savedTokens(users[u].tokens, slot.user.tokens, slot.package.tokenAmount)
    IN  /\ slot.op = "purchasePackage" /\ slot.pc = "saveUser"
        /\ tokens \in TokenRange
        /\ users' = [users EXCEPT ![u].tokens = tokens]
        /\ inflight' = [inflight EXCEPT ![r] = Done(slot, Reply(200, "Purchase successful"))]
        /\ UNCHANGED <<sessions, packages, transactions, now, res>>

\* A session with room for one participant, and a package of one token.
RaceCreateBody ==
    [scheduledAt |-> 1, duration |-> 1, tokenCost |-> 0, maxParticipants |-> 1]

RacePackageBody == [EmptyPackageBody EXCEPT !.tokenAmount = 1, !.price = 1]

FirstPackage == NextPackageId = "p1"

\* No request is in flight yet: the store is being set up.
Quiet == \A r \in RequestIds : inflight[r].pc = "idle"

NextRace ==
    \/ NextRequest
    \/ FirstSession /\ createSession("t1", RaceCreateBody)
    \/ FirstPackage /\ createPackage("a1", RacePackageBody)
    \/ \E id \in {"u1", "t1"} : Quiet /\ updateTokens("a1", id, 1, "")
    \/ \E r \in RequestIds, u \in {"u1", "t1"}, s \in SessionIds : bookFindSession(r, u, s)
    \/ \E r \in RequestIds : bookFindUser(r)
    \/ \E r \in RequestIds : bookSaveUser(r)
    \/ \E r \in RequestIds : bookSaveSession(r)
    \/ \E r \in RequestIds, id \in PackageIds : purchaseFindPackage(r, "u1", id, "credit_card")
    \/ \E r \in RequestIds : purchaseFindUser(r)
    \/ \E r \in RequestIds : purchaseSaveTransaction(r)
    \/ \E r \in RequestIds : purchaseSaveUser(r)

SpecRace == Init /\ [][NextRace]_vars

Succeeded(r) == inflight[r].pc = "done" /\ inflight[r].code = 200

\* Two bookings of one session by different users that both succeeded and
\* that both read the session with one slot free.
C15_BothReadOneFreeSlot(r1, r2) ==
    /\ r1 # r2
    /\ Succeeded(r1) /\ Succeeded(r2)
    /\ inflight[r1].op = "bookSession" /\ inflight[r2].op = "bookSession"
    /\ inflight[r1].id = inflight[r2].id
    /\ inflight[r1].caller # inflight[r2].caller
    /\ inflight[r1].session.maxParticipants > 0
    /\ Len(inflight[r1].session.participants) = inflight[r1].session.maxParticipants - 1
    /\ Len(inflight[r2].session.participants) = inflight[r2].session.maxParticipants - 1

\* C15: once two bookSession requests by different users that both read a
\* session with maxParticipants > 0 and exactly one slot free have both
\* answered 200, the session holds more participants than maxParticipants;
\* no step of any request shortens a roster afterwards.
C15_Overshoot ==
    /\ [](\A r1 \in RequestIds, r2 \in RequestIds :
            C15_BothReadOneFreeSlot(r1, r2)
            => Len(sessions[inflight[r1].id].participants)
                  > sessions[inflight[r1].id].maxParticipants)
    /\ [][\A s \in SessionIds :
            Len(sessions'[s].participants) >= Len(sessions[s].participants)]_vars

\* Both bookings of the one-seat session are done with 200: two participants,
\* both users debited.
C15_Witness ==
    /\ C15_BothReadOneFreeSlot("r1", "r2")
    /\ sessions["s1"].maxParticipants = 1
    /\ Len(sessions["s1"].participants) = 2
    /\ users["u1"].tokens = 0 /\ users["t1"].tokens = 0
    /\ bookingCount(users["u1"], "s1") = 1 /\ bookingCount(users["t1"], "s1") = 1

\* The change a request makes to its caller's balance.
C16_Change(r) ==
    IF inflight[r].op = "bookSession" THEN 0 - inflight[r].session.tokenCost
    ELSE inflight[r].package.tokenAmount

\* Two successful requests of one user that read the same balance.
C16_BothReadSameBalance(r1, r2) ==
    /\ r1 # r2
    /\ Succeeded(r1) /\ Succeeded(r2)
    /\ inflight[r1].caller = inflight[r2].caller
    /\ inflight[r1].user.tokens = inflight[r2].user.tokens

\* C16: when two token-changing requests of the same user (a booking and a
\* purchase, or two purchases) have both read the balance before either
\* wrote, both answer 200 and the balance is the one read plus the change of
\* one of the two requests, never plus both.
C16_LostUpdate ==
    \A r1 \in RequestIds, r2 \in RequestIds :
       C16_BothReadSameBalance(r1, r2)
       => LET read == inflight[r1].user.tokens
              now1 == users[inflight[r1].caller].tokens
          IN  /\ now1 \in {read + C16_Change(r1), read + C16_Change(r2)}
              /\ now1 # read + C16_Change(r1) + C16_Change(r2)

\* A booking and a purchase of the same user both answered 200: the user
\* holds the booking and the two tokens of before the booking plus one.
C16_Witness ==
    /\ C16_BothReadSameBalance("r1", "r2")
    /\ inflight["r1"].op = "bookSession" /\ inflight["r2"].op = "purchasePackage"
    /\ inflight["r1"].user.tokens = 1
    /\ users["u1"].tokens = 2
    /\ bookingCount(users["u1"], "s1") = 1
    /\ Len(transactions) = 1

(***************************************************************************)
(* The participant listing of a stream.                                    *)
(***************************************************************************)
\* A listing that counts a participant whose leave bears the time of the
\* join as active.
isActive_sameInstant(participant) ==
    IF participant.joinedAt # NoDate
    THEN IF participant.leaveAt = NoDate
         THEN TRUE
         ELSE participant.joinedAt >= participant.leaveAt
    ELSE FALSE

\* isActive of the exported getStreamParticipants
isActive(participant) ==
    IF participant.joinedAt # NoDate
    THEN IF participant.leaveAt = NoDate
         THEN TRUE
         ELSE participant.joinedAt > participant.leaveAt
    ELSE FALSE

\* session.participants.filter(p => p.joinedAt).map(...)
listedParticipants(session) ==
    LET joined == SelectSeq(session.participants, LAMBDA p : p.joinedAt # NoDate)
    IN  [i \in 1..Len(joined) |->
            [id |-> joined[i].user, active |-> isActive(joined[i]),
             duration |-> joined[i].duration]]

getStreamParticipantsResponse(caller, session) ==
    IF session.stored # "yes"
    THEN Reply(404, "Session not found")
    ELSE IF ~(users[caller].role = "trainer" \/ users[caller].role = "admin"
                \/ session.trainer = caller)
    THEN Reply(403, "Not authorized to view participant details")
    ELSE Reply(200, "")

\* The getStreamParticipants the module exports (the second assignment).
getStreamParticipants(caller, sid) ==
    LET session == sessions[sid]
        r == getStreamParticipantsResponse(caller, session)
    IN  /\ res = NoRes
        /\ IF ~isTrainer(caller)
           THEN res' = Res("getStreamParticipants", caller, sid, TrainerAccessRequired)
           ELSE IF r.code # 200
           THEN res' = Res("getStreamParticipants", caller, sid, r)
           ELSE res' = [Res("getStreamParticipants", caller, sid, r) EXCEPT
                           !.data = listedParticipants(session)]
        /\ UNCHANGED <<sessions, users, now>>
        /\ UNCHANGED <<packages, transactions, inflight>>

NextListing ==
    \/ Wait
    \/ NextRequest
    \/ FirstSession /\ createSession("t1", AttendCreateBody)
    \/ \E s \in SessionIds : startStream("t1", s)
    \/ \E s \in SessionIds : endStream("t1", s)
    \/ \E s \in SessionIds : joinStream("a1", s)
    \/ \E s \in SessionIds : leaveStream("a1", s)
    \/ \E s \in SessionIds : bookSession("u1", s)
    \/ updateTokens("a1", "u1", 1, "")
    \/ \E c \in {"u1", "t1"}, s \in SessionIds : getStreamParticipants(c, s)

SpecListing == Init /\ [][NextListing]_vars

\* The listing of session s names user u / names u as active.
C21_Listed(session, u) ==
    \E i \in 1..Len(listedParticipants(session)) : listedParticipants(session)[i].id = u

C21_Active(session, u) ==
    \E i \in 1..Len(listedParticipants(session)) :
       /\ listedParticipants(session)[i].id = u
       /\ listedParticipants(session)[i].active

RefundCreateBody ==
    [scheduledAt |-> 1, duration |-> 1, tokenCost |-> MaxTokens, maxParticipants |-> 0]

\* Bodies of updateSession that change the price.
PriceBodies == {[EmptyBody EXCEPT !.tokenCost = c] : c \in 1..MaxTokens}

\* The admin sets the balance of a user who holds no booking to MaxTokens:
\* the only token operation besides booking and refund, and none between a
\* booking and its refund.
Fund(u) ==
    /\ users[u].bookedSessions = <<>>
    /\ updateTokens("a1", u, MaxTokens, "")

NextRefund ==
    \/ NextRequest
    \/ FirstSession /\ createSession("t1", RefundCreateBody)
    \/ \E s \in SessionIds, b \in PriceBodies : updateSession("t1", s, b)
    \/ \E s \in SessionIds, st \in {"scheduled", "cancelled"} : updateSessionStatus("t1", s, st)
    \/ \E u \in Bookers, s \in SessionIds : bookSession(u, s)
    \/ \E u \in Bookers : Fund(u)

SpecRefund == Init /\ [][NextRefund]_vars

\* C22: the refund of a cancellation gives back what the booking took, also
\* when updateSession changed the session's tokenCost in between: a user who
\* holds no booking has the balance the user had before booking, which is 0
\* before the first funding and MaxTokens after it.
C22_RefundEqualsDebit ==
    \A u \in Bookers :
       users[u].bookedSessions = <<>> => users[u].tokens \in {0, MaxTokens}

\* C23: between requests no user holds a booking reference to a session
\* whose status is cancelled.
C23_NoBookingOfCancelled ==
    res = NoRes
    => \A u \in UserIds, s \in SessionIds :
          (sessions[s].stored = "yes" /\ sessions[s].status = "cancelled")
          => bookingCount(users[u], s) = 0

\* The number of roster entries of session s that name user u.
C26_RosterCount(session, u) ==
    Cardinality({i \in 1..Len(session.participants) : session.participants[i].user = u})

\* C26: the participant roster of every session holds at most one entry per
\* user.
C26_OneEntryPerUser ==
    \A s \in SessionIds, u \in UserIds : C26_RosterCount(sessions[s], u) <= 1

\* C27: between requests every booking reference a user holds refers to a
\* session the store holds.
C27_BookingsReferToStoredSessions ==
    res = NoRes
    => \A u \in UserIds, s \in SessionIds :
          bookingCount(users[u], s) > 0 => sessions[s].stored = "yes"

\* C30: a bookSession request for a session whose status is completed takes
\* no tokens and adds no booking and no roster entry.
C30_NoBookingOfCompleted ==
    [][(res'.op = "bookSession" /\ sessions[res'.session].stored = "yes"
          /\ sessions[res'.session].status = "completed")
       => /\ res'.code # 200
          /\ users' = users
          /\ sessions' = sessions]_vars

\* The end of the stream of a session so far: its end time, or the present
\* while it has not ended.
C25_StreamEnd(session) ==
    IF session.streamingDetails.endedAt # NoDate THEN session.streamingDetails.endedAt ELSE now

\* C25: a leave request of a participant who has not joined since the last
\* leave, or that arrives after the session has completed, leaves the
\* participant's duration as it is, and no participant's duration exceeds the
\* time between the start and the end of the stream.
C25_DurationWithinStream ==
    /\ [](\A s \in SessionIds : \A i \in 1..Len(sessions[s].participants) :
            sessions[s].participants[i].duration * TicksPerSecond
               <= C25_StreamEnd(sessions[s]) - sessions[s].streamingDetails.startedAt)
    /\ [][\A s \in SessionIds, u \in UserIds :
             (/\ res'.op = "leaveStream" /\ res'.code = 200
              /\ res'.session = s /\ res'.user = u
              /\ participantIndex(sessions[s].participants, u) > 0
              /\ \/ C11_Entry(s, u).leaveAt # NoDate
                 \/ sessions[s].status = "completed")
             => C11_EntryAfter(s, u).duration = C11_Entry(s, u).duration]_vars

(***************************************************************************)
(* startStream and updateSessionStatus in flight together.                 *)
(***************************************************************************)
\* session = await Session.findById(sessionId), and the checks of startStream
startFindSession(r, caller, sid) ==
    LET resp == IF ~isTrainer(caller) THEN TrainerAccessRequired
                ELSE startStreamResponse(caller, sessions[sid])
        slot == [Idle EXCEPT !.op = "startStream", !.caller = caller, !.id = sid,
                             !.session = sessions[sid]]
    IN  /\ inflight[r].pc = "idle"
        /\ inflight' = [inflight EXCEPT ![r] =
                           IF resp.code = 200
                           THEN [slot EXCEPT !.pc = "updateStatus"]
                           ELSE Done(slot, resp)]
        /\ UNCHANGED <<sessions, users, packages, transactions, now, res>>

\* Session.findByIdAndUpdate(sessionId, {$set: updateData}): the fields are
\* set on the stored document whatever its status is by now.
startWrite(stored, sid, t) ==
    IF stored.stored = "yes"
    THEN updateSessionStreamStatus(stored, "live", createChannel(sid), t)
    ELSE stored

\* await agoraService.updateSessionStreamStatus(sessionId, 'live', ...), and
\* the response
startUpdateStatus(r) ==
    LET slot == inflight[r]
    IN  /\ slot.op = "startStream" /\ slot.pc = "updateStatus"
        /\ sessions' = [sessions EXCEPT ![slot.id] = startWrite(@, slot.id, now)]
        /\ inflight' = [inflight EXCEPT ![r] = Done(slot, Reply(200, "Stream started successfully"))]
        /\ UNCHANGED <<users, packages, transactions, now, res>>

\* session = await Session.findById(req.params.id), the checks of
\* updateSessionStatus and session.status = status on the document read
statusFindSession(r, caller, sid, status) ==
    LET resp == IF ~isTrainer(caller) THEN TrainerAccessRequired
                ELSE updateSessionStatusResponse(caller, sessions[sid], status)
        slot == [Idle EXCEPT !.op = "updateSessionStatus", !.caller = caller, !.id = sid,
                             !.session = sessions[sid]]
    IN  /\ inflight[r].pc = "idle"
        /\ inflight' = [inflight EXCEPT ![r] =
                           IF resp.code = 200
                           THEN [slot EXCEPT !.pc = "saveSession", !.session.status = status]
                           ELSE Done(slot, resp)]
        /\ UNCHANGED <<sessions, users, packages, transactions, now, res>>

\* await session.save(): the status assigned is set on the stored document
statusSaveSession(r) ==
    LET slot == inflight[r]
    IN  /\ slot.op = "updateSessionStatus" /\ slot.pc = "saveSession"
        /\ sessions' = [sessions EXCEPT ![slot.id].status = slot.session.status]
        /\ inflight' = [inflight EXCEPT ![r] =
                           IF slot.session.status = "cancelled"
                           THEN [slot EXCEPT !.pc = "refund"]
                           ELSE Done(slot, Reply(200, ""))]
        /\ UNCHANGED <<users, packages, transactions, now, res>>

\* User.find({'bookedSessions.session': session._id}) and the loop of
\* refunds, with the tokenCost of the document the request holds; then the
\* response.  No other step of this specification writes a user meanwhile.
statusRefund(r) ==
    LET slot == inflight[r]
    IN  /\ slot.op = "updateSessionStatus" /\ slot.pc = "refund"
        /\ \A u \in UserIds : refundAll(users, slot.session, slot.id)[u].tokens \in TokenRange
        /\ users' = refundAll(users, slot.session, slot.id)
        /\ inflight' = [inflight EXCEPT ![r] = Done(slot, Reply(200, ""))]
        /\ UNCHANGED <<sessions, packages, transactions, now, res>>

NextStartCancel ==
    \/ NextRequest
    \/ FirstSession /\ createSession("t1", RaceCreateBody)
    \/ Quiet /\ updateTokens("a1", "u1", 1, "")
    \/ \E s \in SessionIds : Quiet /\ bookSession("u1", s)
    \/ \E r \in RequestIds, c \in {"t1", "u1"}, s \in SessionIds : startFindSession(r, c, s)
    \/ \E r \in RequestIds : startUpdateStatus(r)
    \/ \E r \in RequestIds, c \in {"t1", "u1"}, s \in SessionIds,
          st \in {"cancelled", "scheduled", "live"} : statusFindSession(r, c, s, st)
    \/ \E r \in RequestIds : statusSaveSession(r)
    \/ \E r \in RequestIds : statusRefund(r)

SpecStartCancel == Init /\ [][NextStartCancel]_vars

\* A startStream and a cancelling updateSessionStatus of one session that
\* had bookers have both answered 200.  Each rejects a session the other has
\* already written, so both read the status scheduled before either wrote.
C24_BothDone(r1, r2) ==
    /\ Succeeded(r1) /\ inflight[r1].op = "startStream"
    /\ Succeeded(r2) /\ inflight[r2].op = "updateSessionStatus"
    /\ inflight[r2].session.status = "cancelled"
    /\ inflight[r1].id = inflight[r2].id
    /\ Len(inflight[r2].session.participants) > 0

\* C24: when a startStream and a cancelling updateSessionStatus that both
\* read the session as scheduled have both finished, the session is not live
\* with its bookers refunded and their booking references removed.
C24_StartKeepsCancellation ==
    \A r1 \in RequestIds, r2 \in RequestIds :
       C24_BothDone(r1, r2)
       => ~(/\ sessions[inflight[r1].id].status = "live"
            /\ \A u \in UserIds : bookingCount(users[u], inflight[r1].id) = 0)

(***************************************************************************)
(* Two rateSession requests in flight together.                            *)
(***************************************************************************)
\* The check of the body, and session = await Session.findById(req.params.id)
rateFindSession(r, caller, sid, rating) ==
    LET slot == [Idle EXCEPT !.op = "rateSession", !.caller = caller, !.id = sid,
                             !.body = rating, !.session = sessions[sid]]
    IN  /\ inflight[r].pc = "idle"
        /\ inflight' = [inflight EXCEPT ![r] =
                           IF rating = 0 \/ rating < 1 \/ rating > 5
                           THEN Done(slot, Reply(400, "Rating must be between 1 and 5"))
                           ELSE [slot EXCEPT !.pc = "findUser"]]
        /\ UNCHANGED <<sessions, users, packages, transactions, now, res>>

\* user = await User.findById(req.user.id), the checks, and the rating put
\* into the documents the request holds
rateFindUser(r) ==
    LET slot == inflight[r]
        user == users[slot.caller]
        resp == rateSessionResponse(slot.caller, slot.session, slot.body)
        rated == ratedSession(slot.session, slot.caller, slot.body, now)
        held == [slot EXCEPT !.user = user, !.session = rated]
    IN  /\ slot.op = "rateSession" /\ slot.pc = "findUser"
        /\ inflight' = [inflight EXCEPT ![r] =
                           IF resp.code # 200
                           THEN Done([slot EXCEPT !.user = user], resp)
                           ELSE IF alreadyRated(slot.session, slot.caller)
                           THEN [held EXCEPT !.pc = "saveRating"]
                           ELSE IF alreadyCompleted(user, slot.id)
                           THEN [held EXCEPT !.pc = "saveSession"]
                           ELSE [held EXCEPT !.pc = "saveUser"]]
        /\ UNCHANGED <<sessions, users, packages, transactions, now, res>>

\* await user.save(): the completed session pushed onto the stored array
rateSaveUser(r) ==
    LET slot == inflight[r]
        u == slot.caller
    IN  /\ slot.op = "rateSession" /\ slot.pc = "saveUser"
        /\ users' = [users EXCEPT
                        ![u].completedSessions =
                            savedArray(@, slot.user.completedSessions,
                                       [session |-> slot.id, rating |-> slot.body])]
        /\ inflight' = [inflight EXCEPT ![r].pc = "saveSession"]
        /\ UNCHANGED <<sessions, packages, transactions, now, res>>

\* The averageRating a save leaves in the store: the one computed on the
\* document the request holds if that differs from the one the request read
\* (the path is modified and set), else the stored one.
savedAverage(stored, held) ==
    IF calculateAverageRating(held).averageRating # held.averageRating
    THEN calculateAverageRating(held).averageRating
    ELSE stored.averageRating

\* session.calculateAverageRating(); await session.save() after a push: the
\* new rating is appended to the stored ratings
rateSaveSession(r) ==
    LET slot == inflight[r]
        held == slot.session
    IN  /\ slot.op = "rateSession" /\ slot.pc = "saveSession"
        /\ sessions' = [sessions EXCEPT
                           ![slot.id].ratings =
                               savedArray(@, SubSeq(held.ratings, 1, Len(held.ratings) - 1),
                                          held.ratings[Len(held.ratings)]),
                           ![slot.id].averageRating = savedAverage(sessions[slot.id], held)]
        /\ inflight' = [inflight EXCEPT
                           ![r].pc = "updateTrainer",
                           ![r].session = calculateAverageRating(held)]
        /\ UNCHANGED <<users, packages, transactions, now, res>>

\* session.calculateAverageRating(); await session.save() after the caller's
\* entry was overwritten: the entry is set at its place in the stored ratings
rateSaveRating(r) ==
    LET slot == inflight[r]
        held == slot.session
    IN  /\ slot.op = "rateSession" /\ slot.pc = "saveRating"
        /\ sessions' = [sessions EXCEPT
                           ![slot.id].ratings =
                               [i \in 1..Len(@) |->
                                   IF i <= Len(held.ratings) /\ held.ratings[i].user = slot.caller
                                   THEN held.ratings[i] ELSE @[i]],
                           ![slot.id].averageRating = savedAverage(sessions[slot.id], held)]
        /\ inflight' = [inflight EXCEPT
                           ![r].pc = "updateTrainer",
                           ![r].session = calculateAverageRating(held)]
        /\ UNCHANGED <<users, packages, transactions, now, res>>

\* "Update trainer rating" (the trainer and the trainer's sessions are read
\* and the trainer is saved in this one step), and the response
rateUpdateTrainer(r) ==
    LET slot == inflight[r]
        trainer == slot.session.trainer
    IN  /\ slot.op = "rateSession" /\ slot.pc = "updateTrainer"
        /\ users' = [users EXCEPT ![trainer] = trainerAfter(@, sessions, trainer)]
        /\ inflight' = [inflight EXCEPT ![r] = Done(slot, Reply(200, "Session rated successfully"))]
        /\ UNCHANGED <<sessions, packages, transactions, now, res>>

Raters == {"u1", "t1"}

NextRateRace ==
    \/ NextRequest
    \/ Quiet /\ FirstSession /\ createSession("t1", RateCreateBody)
    \/ \E u \in Raters : Quiet /\ updateTokens("a1", u, 1, "")
    \/ \E u \in Raters, s \in SessionIds : Quiet /\ bookSession(u, s)
    \/ \E s \in SessionIds : Quiet /\ startStream("t1", s)
    \/ \E s \in SessionIds : Quiet /\ endStream("t1", s)
    \/ \E r \in RequestIds, u \in Raters, s \in SessionIds, n \in Ratings :
          rateFindSession(r, u, s, n)
    \/ \E r \in RequestIds : rateFindUser(r)
    \/ \E r \in RequestIds : rateSaveUser(r)
    \/ \E r \in RequestIds : rateSaveSession(r)
    \/ \E r \in RequestIds : rateSaveRating(r)
    \/ \E r \in RequestIds : rateUpdateTrainer(r)

SpecRateRace == Init /\ [][NextRateRace]_vars

\* Two rateSession requests of one session by different users have both
\* answered 200, and neither had the other's rating in the session it read.
C29_BothRated(r1, r2) ==
    /\ Succeeded(r1) /\ inflight[r1].op = "rateSession"
    /\ Succeeded(r2) /\ inflight[r2].op = "rateSession"
    /\ inflight[r1].id = inflight[r2].id
    /\ inflight[r1].caller # inflight[r2].caller
    /\ ~alreadyRated(inflight[r1].session, inflight[r2].caller)
    /\ ~alreadyRated(inflight[r2].session, inflight[r1].caller)

\* C29: once two rateSession requests by different participants that both
\* loaded the session before either saved have finished, the stored
\* averageRating is the one-decimal mean of the stored ratings.
C29_AverageOfStoredRatings ==
    \A r1 \in RequestIds, r2 \in RequestIds :
       C29_BothRated(r1, r2)
       => C13_IsRoundedMean(sessions[inflight[r1].id].averageRating,
                            sessions[inflight[r1].id].ratings)

(***************************************************************************)
(* A booking whose second save fails.                                      *)
(***************************************************************************)
\* await session.save() rejects: the catch block hands the error to the
\* error handler, which answers 500 with the error's own message (not
\* followed here); the user saved before stays saved.
bookSaveSessionFails(r) ==
    LET slot == inflight[r]
    IN  /\ slot.op = "bookSession" /\ slot.pc = "saveSession"
        /\ inflight' = [inflight EXCEPT ![r] = Done(slot, Reply(500, ""))]
        /\ UNCHANGED <<sessions, users, packages, transactions, now, res>>

NextBookFail ==
    \/ NextRequest
    \/ Quiet /\ FirstSession /\ createSession("t1", RateCreateBody)
    \/ \E u \in Bookers : Quiet /\ Fund(u)
    \/ \E r \in RequestIds, u \in Bookers, s \in SessionIds : bookFindSession(r, u, s)
    \/ \E r \in RequestIds : bookFindUser(r)
    \/ \E r \in RequestIds : bookSaveUser(r)
    \/ \E r \in RequestIds : bookSaveSession(r)
    \/ \E r \in RequestIds : bookSaveSessionFails(r)

SpecBookFail == Init /\ [][NextBookFail]_vars

\* No request is under way: every request that started has answered.
C28_Finished == \A r \in RequestIds : inflight[r].pc \in {"idle", "done"}

\* The user holds a booking reference to the stored session s and an entry
\* in its roster.
C28_BothRecords(u, s) ==
    /\ bookingCount(users[u], s) > 0
    /\ sessions[s].stored = "yes"
    /\ C26_RosterCount(sessions[s], u) > 0

\* C28: when every bookSession request has finished, with 200 or with an
\* error between its two saves, a user who holds a booking reference to a
\* stored session has an entry in that session's roster, and a user whose
\* balance is below the funded MaxTokens (a user debited for a booking) has
\* both records.
C28_BookingRecordsAgree ==
    C28_Finished
    => \A u \in Bookers :
          /\ \A s \in SessionIds :
                (bookingCount(users[u], s) > 0 /\ sessions[s].stored = "yes")
                => C26_RosterCount(sessions[s], u) > 0
          /\ users[u].tokens \notin {0, MaxTokens}
                => \E s \in SessionIds : C28_BothRecords(u, s)

====
